---- MODULE Spec2Model ----
(***************************************************************************)
(* Arbok tunnel server: the address pool, the tunnel registry with its     *)
(* reaper, the WireGuard peer table and the HTTP handlers that create and  *)
(* delete tunnels, as a state machine.  Every step that runs under the     *)
(* registry mutex (or under the device's own lock) is one atomic action;   *)
(* a handler that releases the lock between two calls is split there.      *)
(***************************************************************************)
EXTENDS Integers, Sequences, FiniteSets, Bags, TLC

(* ------------------------------------------------------------------ *)
(* Bounds of the model                                                 *)
(* ------------------------------------------------------------------ *)

\* number of HTTP handler goroutines that can be in flight at once
MaxReqs == 2

\* total number of Registry.CreateTunnel calls in one behaviour
MaxCreates == 2

\* the wall clock runs from 0 to MaxTime
MaxTime == 3

\* cfg.DefaultTTL and cfg.CleanupInterval, in clock units
DefaultTTL == 1

CleanupInterval == 2

(* ------------------------------------------------------------------ *)
(* net.IP, net.IPNet                                                   *)
(* ------------------------------------------------------------------ *)

Pow2(n) == 2 ^ n

\* the configured CIDR strings (server.cidr): address octets and prefix length
Cidrs ==
  { [addr |-> <<10, 100, 0, 0>>,   ones |-> 30],
    [addr |-> <<10, 100, 0, 0>>,   ones |-> 24],
    [addr |-> <<10, 100, 0, 128>>, ones |-> 25],
    [addr |-> <<10, 100, 0, 2>>,   ones |-> 31] }

\* number of mask bits that fall into octet k (1..4) of a /ones mask
MaskBits(ones, k) ==
  LET left == ones - 8 * (k - 1)
  IN  IF left <= 0 THEN 0 ELSE IF left >= 8 THEN 8 ELSE left

\* one octet ANDed with its part of the mask
MaskOctet(v, ones, k) ==
  LET low == Pow2(8 - MaskBits(ones, k))
  IN  (v \div low) * low

\* net.ParseCIDR: the network is the address with the host bits cleared
ParseCIDR(c) ==
  [IP   |-> [k \in 1..4 |-> MaskOctet(c.addr[k], c.ones, k)],
   ones |-> c.ones,
   bits |-> 32]

\* IPNet.Contains for a 4-byte address
Contains(network, ip) ==
  \A k \in 1..4 : MaskOctet(ip[k], network.ones, k) = network.IP[k]

\* the 12-byte prefix of an IPv4 address in 16-byte form
V4InV6Prefix == <<0, 0, 0, 0, 0, 0, 0, 0, 0, 0, 255, 255>>

\* net.IP.To4: the 4-byte form of a 4-byte or a v4-mapped 16-byte address
To4(ip) ==
  IF Len(ip) = 4 THEN ip
  ELSE IF Len(ip) = 16 /\ SubSeq(ip, 1, 12) = V4InV6Prefix THEN SubSeq(ip, 13, 16)
  ELSE <<>>

\* net.IP.String of an IPv4 address: the dotted quad, kept as its four numbers
IPString(ip) == [quad |-> To4(ip)]

\* net.ParseIP of a dotted quad: the 16-byte form
ParseIP(s) == V4InV6Prefix \o s.quad

\* a byte slice with its last byte replaced (ip[len(ip)-1] = b)
SetLast(ip, b) == [ip EXCEPT ![Len(ip)] = b]

(* ------------------------------------------------------------------ *)
(* IPPool                                                              *)
(* ------------------------------------------------------------------ *)

\* the error of net.ParseCIDR: nil for a dotted quad of bytes with a prefix
\* length of 0..32
ParseCIDRErr(c) ==
  IF (\A k \in 1..4 : c.addr[k] \in 0..255) /\ c.ones \in 0..32
  THEN "nil"
  ELSE "invalid CIDR address"

\* the error NewIPPool returns: only the one of net.ParseCIDR, wrapped
NewIPPoolErr(c) ==
  IF ParseCIDRErr(c) # "nil" THEN "invalid CIDR" ELSE "nil"

\* CIDR strings that net.ParseCIDR rejects
MalformedCidrs ==
  { [addr |-> <<10, 100, 0, 0>>,   ones |-> 33],
    [addr |-> <<10, 100, 0, 256>>, ones |-> 24] }

\* NewIPPool
NewIPPool(c) ==
  LET network == ParseCIDR(c)
      total   == Pow2(network.bits - network.ones)
      usable  == IF total > 2 THEN total - 2 ELSE total
  IN  [network |-> network, allocated |-> {}, available |-> usable - 1]

\* the loop of IPPool.Allocate from i on: the first i in 2..255 whose address
\* is outside the network or not allocated; 256 when the loop runs to its end
RECURSIVE AllocScanStop(_, _)
AllocScanStop(p, i) ==
  IF i >= 256 THEN 256
  ELSE IF \/ ~Contains(p.network, SetLast(p.network.IP, i))
          \/ IPString(SetLast(p.network.IP, i)) \notin p.allocated
  THEN i
  ELSE AllocScanStop(p, i + 1)

\* IPPool.Allocate that hands the address out without recording it
Allocate_NoMark(p) ==
  IF p.available <= 0
  THEN [pool |-> p, ip |-> <<>>, err |-> "IP pool exhausted"]
  ELSE LET i  == AllocScanStop(p, 2)
           ip == SetLast(p.network.IP, i)
       IN  IF i < 256 /\ Contains(p.network, ip)
           THEN [pool |-> [p EXCEPT !.available = @ - 1], ip |-> ip, err |-> "nil"]
           ELSE [pool |-> p, ip |-> <<>>, err |-> "no available IPs in pool"]

\* IPPool.Allocate: [pool, ip, err]
Allocate(p) ==
  IF p.available <= 0
  THEN [pool |-> p, ip |-> <<>>, err |-> "IP pool exhausted"]
  ELSE LET i  == AllocScanStop(p, 2)
           ip == SetLast(p.network.IP, i)
       IN  IF i < 256 /\ Contains(p.network, ip)
           THEN [pool |-> [p EXCEPT !.allocated = @ \cup {IPString(ip)},
                                    !.available = @ - 1],
                 ip   |-> ip,
                 err  |-> "nil"]
           ELSE [pool |-> p, ip |-> <<>>, err |-> "no available IPs in pool"]

\* IPPool.Release that counts the address as free but keeps it in the set
Release_NoRemove(p, ip) ==
  LET ipStr == IPString(ip)
  IN  IF ipStr \in p.allocated
      THEN [pool |-> [p EXCEPT !.available = @ + 1], err |-> "nil"]
      ELSE [pool |-> p, err |-> "was not allocated"]

\* IPPool.Release that does not look whether the address is allocated
Release_Unchecked(p, ip) ==
  [pool |-> [p EXCEPT !.allocated = @ \ {IPString(ip)}, !.available = @ + 1],
   err  |-> "nil"]

\* IPPool.Release: [pool, err]
Release(p, ip) ==
  LET ipStr == IPString(ip)
  IN  IF ipStr \in p.allocated
      THEN [pool |-> [p EXCEPT !.allocated = @ \ {ipStr}, !.available = @ + 1],
            err  |-> "nil"]
      ELSE [pool |-> p, err |-> "was not allocated"]

\* IPPool.ReleaseString
ReleaseString(p, ipStr) == Release(p, ParseIP(ipStr))

\* IPPool.Available
Available(p) == p.available

\* tunnel.New / GetServerIP: the server's overlay address, network + 1 in the
\* last byte
ServerIP(c) ==
  LET ip == ParseCIDR(c).IP
  IN  SetLast(ip, (ip[Len(ip)] + 1) % 256)

(* ------------------------------------------------------------------ *)
(* Key and name generators                                             *)
(* ------------------------------------------------------------------ *)

Adjectives ==
  << "happy", "sunny", "bright", "swift", "calm",
     "cool", "warm", "quick", "smart", "fresh",
     "clear", "light", "smooth", "sharp", "clean" >>

Nouns ==
  << "cloud", "wave", "star", "moon", "wind",
     "rain", "snow", "fire", "lake", "tree",
     "river", "mountain", "valley", "ocean", "forest" >>

\* the three random bytes rand.Read hands to FriendlyNameGenerator.Generate;
\* <<0,0,0>> and <<0,15,0>> are different draws that give the same name
NameBufs == { <<0, 0, 0>>, <<0, 15, 0>>, <<1, 0, 0>> }

\* FriendlyNameGenerator.Generate: "<adj>-<noun>-<num>", kept as its parts
\* (buf[2]<<8 | buf[0] is a sum, the low byte of buf[2]<<8 being zero)
NameGenerate(buf) ==
  [adj  |-> Adjectives[(buf[1] % Len(Adjectives)) + 1],
   noun |-> Nouns[(buf[2] % Len(Nouns)) + 1],
   num  |-> (buf[3] * 256 + buf[1]) % 10000]

\* WireGuardKeyGenerator.Generate: a key pair from 32 fresh random bytes (seed).
\* crypto/rand.Read of the pinned toolchain never returns an error, so err is
\* "nil"; two draws of 32 random bytes are taken to differ.
KeyGenerate(seed) ==
  [privateKey |-> [priv |-> seed], publicKey |-> [pub |-> seed], err |-> "nil"]

(* ------------------------------------------------------------------ *)
(* Go maps                                                             *)
(* ------------------------------------------------------------------ *)

MapPut(m, k, v) == [x \in DOMAIN m \cup {k} |-> IF x = k THEN v ELSE m[x]]

MapDelete(m, k) == [x \in DOMAIN m \ {k} |-> m[x]]

EmptyMap == [x \in {} |-> 0]

(* ------------------------------------------------------------------ *)
(* tunnel.Info                                                         *)
(* ------------------------------------------------------------------ *)

\* Info.IsExpired: time.Now().After(t.ExpiresAt)
IsExpired(t, clock) == clock > t.ExpiresAt

(* ------------------------------------------------------------------ *)
(* Registry (the operations run with r.mu held)                        *)
(* ------------------------------------------------------------------ *)

\* NewRegistry, and the package-level metrics at start
NewRegistry(c) ==
  [ipPool |-> NewIPPool(c), tunnels |-> EmptyMap, bySubdomain |-> EmptyMap]

NewMetrics(c) ==
  [TunnelsActive |-> 0, TunnelsCreated |-> 0, TunnelsDeleted |-> 0,
   TunnelsExpired |-> 0, IPPoolExhausted |-> 0,
   IPPoolAvailable |-> Available(NewIPPool(c)),
   AuthFailures |-> 0, AuthSuccesses |-> 0]

\* Registry.CreateTunnel that does not count a failed Allocate
CreateTunnel_NoCount(r, m, port, uuid, seed, buf, clock) ==
  LET a == Allocate(r.ipPool)
      k == KeyGenerate(seed)
  IN  IF a.err # "nil"
      THEN [reg |-> r, metrics |-> m, t |-> [ID |-> 0], err |-> a.err]
      ELSE IF k.err # "nil"
      THEN [reg |-> [r EXCEPT !.ipPool = Release(a.pool, a.ip).pool],
            metrics |-> m, t |-> [ID |-> 0], err |-> k.err]
      ELSE
        LET t == [ID         |-> uuid,
                  Subdomain  |-> NameGenerate(buf),
                  Port       |-> port,
                  PublicKey  |-> k.publicKey,
                  PrivateKey |-> k.privateKey,
                  AllowedIP  |-> IPString(a.ip),
                  CreatedAt  |-> clock,
                  ExpiresAt  |-> clock + DefaultTTL]
        IN  [reg |-> [ipPool      |-> a.pool,
                      tunnels     |-> MapPut(r.tunnels, t.ID, t),
                      bySubdomain |-> MapPut(r.bySubdomain, t.Subdomain, t)],
             metrics |-> [m EXCEPT !.TunnelsActive = @ + 1,
                                   !.TunnelsCreated = @ + 1,
                                   !.IPPoolAvailable = Available(a.pool)],
             t   |-> t,
             err |-> "nil"]

\* Registry.CreateTunnel: [reg, metrics, t, err]
CreateTunnel(r, m, port, uuid, seed, buf, clock) ==
  LET a == Allocate(r.ipPool)
      k == KeyGenerate(seed)
  IN  IF a.err # "nil"
      THEN [reg |-> r, metrics |-> [m EXCEPT !.IPPoolExhausted = @ + 1],
            t |-> [ID |-> 0], err |-> a.err]
      ELSE IF k.err # "nil"
      THEN [reg |-> [r EXCEPT !.ipPool = Release(a.pool, a.ip).pool],
            metrics |-> m, t |-> [ID |-> 0], err |-> k.err]
      ELSE
        LET t == [ID         |-> uuid,
                  Subdomain  |-> NameGenerate(buf),
                  Port       |-> port,
                  PublicKey  |-> k.publicKey,
                  PrivateKey |-> k.privateKey,
                  AllowedIP  |-> IPString(a.ip),
                  CreatedAt  |-> clock,
                  ExpiresAt  |-> clock + DefaultTTL]
        IN  [reg |-> [ipPool      |-> a.pool,
                      tunnels     |-> MapPut(r.tunnels, t.ID, t),
                      bySubdomain |-> MapPut(r.bySubdomain, t.Subdomain, t)],
             metrics |-> [m EXCEPT !.TunnelsActive = @ + 1,
                                   !.TunnelsCreated = @ + 1,
                                   !.IPPoolAvailable = Available(a.pool)],
             t   |-> t,
             err |-> "nil"]

\* Registry.GetTunnel that answers an unknown id with some other record
GetTunnel_Other(r, id) ==
  IF id \in DOMAIN r.tunnels THEN r.tunnels[id]
  ELSE IF DOMAIN r.tunnels # {}
  THEN r.tunnels[CHOOSE x \in DOMAIN r.tunnels : TRUE]
  ELSE [ID |-> 0]

\* Registry.GetTunnel (the LastSeen stamp is not part of this model)
GetTunnel(r, id) ==
  IF id \in DOMAIN r.tunnels THEN r.tunnels[id] ELSE [ID |-> 0]

\* Registry.GetTunnelBySubdomain
GetTunnelBySubdomain(r, sub) ==
  IF sub \in DOMAIN r.bySubdomain THEN r.bySubdomain[sub] ELSE [ID |-> 0]

\* Registry.deleteTunnelLocked that does not give the address back
deleteTunnelLocked_NoRelease(r, m, t) ==
  [reg |-> [ipPool      |-> r.ipPool,
            tunnels     |-> MapDelete(r.tunnels, t.ID),
            bySubdomain |-> MapDelete(r.bySubdomain, t.Subdomain)],
   metrics |-> [m EXCEPT !.TunnelsActive = @ - 1,
                         !.TunnelsDeleted = @ + 1,
                         !.IPPoolAvailable = Available(r.ipPool)]]

\* Registry.deleteTunnelLocked: [reg, metrics]
deleteTunnelLocked(r, m, t) ==
  LET rel == ReleaseString(r.ipPool, t.AllowedIP)
  IN  [reg |-> [ipPool      |-> rel.pool,
                tunnels     |-> MapDelete(r.tunnels, t.ID),
                bySubdomain |-> MapDelete(r.bySubdomain, t.Subdomain)],
       metrics |-> [m EXCEPT !.TunnelsActive = @ - 1,
                             !.TunnelsDeleted = @ + 1,
                             !.IPPoolAvailable = Available(rel.pool)]]

\* Registry.DeleteTunnel that counts the removal of an unknown id as well
DeleteTunnel_CountsMissing(r, m, id) ==
  IF id \notin DOMAIN r.tunnels
  THEN [reg |-> r,
        metrics |-> [m EXCEPT !.TunnelsActive = @ - 1, !.TunnelsDeleted = @ + 1],
        err |-> "tunnel not found"]
  ELSE LET d == deleteTunnelLocked(r, m, r.tunnels[id])
       IN  [reg |-> d.reg, metrics |-> d.metrics, err |-> "nil"]

\* Registry.DeleteTunnel: [reg, metrics, err]
DeleteTunnel(r, m, id) ==
  IF id \notin DOMAIN r.tunnels
  THEN [reg |-> r, metrics |-> m, err |-> "tunnel not found"]
  ELSE LET d == deleteTunnelLocked(r, m, r.tunnels[id])
       IN  [reg |-> d.reg, metrics |-> d.metrics, err |-> "nil"]

\* the loop "for each t in ts: deleteTunnelLocked(t)", ts given by their ids;
\* expired tells whether each removal also counts in TunnelsExpired
RECURSIVE DeleteEach(_, _, _, _)
DeleteEach(r, m, ts, expired) ==
  IF ts = {} THEN [reg |-> r, metrics |-> m]
  ELSE LET t == CHOOSE x \in ts : TRUE
           d == deleteTunnelLocked(r, m, t)
           n == IF expired
                THEN [d.metrics EXCEPT !.TunnelsExpired = @ + 1]
                ELSE d.metrics
       IN  DeleteEach(d.reg, n, ts \ {t}, expired)

\* the records of the id index
Live(r) == { r.tunnels[id] : id \in DOMAIN r.tunnels }

\* Registry.cleanupExpired that leaves the subdomain index as it was
cleanupExpired_KeepsSubdomain(r, m, clock) ==
  LET d == DeleteEach(r, m, { t \in Live(r) : IsExpired(t, clock) }, TRUE)
  IN  [reg |-> [d.reg EXCEPT !.bySubdomain = r.bySubdomain], metrics |-> d.metrics]

\* Registry.cleanupExpired: [reg, metrics]
cleanupExpired(r, m, clock) ==
  DeleteEach(r, m, { t \in Live(r) : IsExpired(t, clock) }, TRUE)

\* Registry.Close that counts the records it removes as expired
CloseRegistry_CountsExpired(r, m) ==
  DeleteEach(r, m, Live(r), TRUE)

\* Registry.Close, the part under r.mu: [reg, metrics]
CloseRegistry(r, m) ==
  DeleteEach(r, m, Live(r), FALSE)

(* ------------------------------------------------------------------ *)
(* Tunnel device (the WireGuard peer table)                            *)
(* ------------------------------------------------------------------ *)

\* tunnel.New: an open device with no peers
NewTunnel == [closed |-> FALSE, peers |-> EmptyMap]

\* what device.IpcSet can answer.  On an open device the call succeeds or
\* returns an error.  After Tunnel.Close the field tun.device is nil: the
\* unsynchronised read in AddPeer/RemovePeer sees nil (a nil dereference, a
\* panic) or still sees the closed device.
IpcOutcomes(t, op) ==
  IF ~t.closed THEN {"nil", "err"}
  ELSE IF op = "add" THEN {"panic", "err"}
  ELSE {"panic", "nil", "err"}

\* Tunnel.AddPeer with the answer ipc of device.IpcSet: [tun, err]
AddPeer(t, publicKey, allowedIP, ipc) ==
  IF ipc = "nil"
  THEN [tun |-> [t EXCEPT !.peers =
                   MapPut(@, publicKey,
                          [allowed_ip |-> [ip |-> allowedIP, prefix |-> 32],
                           persistent_keepalive_interval |-> 25])],
        err |-> "nil"]
  ELSE [tun |-> t, err |-> ipc]

\* Tunnel.RemovePeer with the answer ipc of device.IpcSet: [tun, err]
RemovePeer(t, publicKey, ipc) ==
  IF ipc = "nil"
  THEN [tun |-> [t EXCEPT !.peers = MapDelete(@, publicKey)], err |-> "nil"]
  ELSE [tun |-> t, err |-> ipc]

\* Tunnel.Close: device.Close drops every peer; later calls return at once
CloseTunnel(t) ==
  IF t.closed THEN t ELSE [closed |-> TRUE, peers |-> EmptyMap]

(* ------------------------------------------------------------------ *)
(* HTTP requests: paths, hosts, credentials                            *)
(* ------------------------------------------------------------------ *)

\* a path segment is a sequence of characters
Digits == << "0", "1", "2", "3", "4", "5", "6", "7", "8", "9" >>

DigitVal(ch) == (CHOOSE i \in 1..Len(Digits) : Digits[i] = ch) - 1

\* the route pattern [0-9]+
IsDigits(seg) ==
  /\ Len(seg) > 0
  /\ \A i \in 1..Len(seg) : \E j \in 1..Len(Digits) : Digits[j] = seg[i]

RECURSIVE DecimalValue(_)
DecimalValue(seg) ==
  IF seg = <<>> THEN 0
  ELSE 10 * DecimalValue(SubSeq(seg, 1, Len(seg) - 1)) + DigitVal(seg[Len(seg)])

\* strconv.ParseUint(s, 10, bitSize): [val, err]
ParseUint(seg, bitSize) ==
  IF ~IsDigits(seg) THEN [val |-> 0, err |-> "invalid syntax"]
  ELSE IF DecimalValue(seg) > Pow2(bitSize) - 1
  THEN [val |-> Pow2(bitSize) - 1, err |-> "value out of range"]
  ELSE [val |-> DecimalValue(seg), err |-> "nil"]

\* the text of uuid n (uuid.New().String()), and the uuid a segment is
\* the text of (0: of none)
UUIDString(n) == << "u", Digits[n + 1] >>

PathID(seg) ==
  IF \E n \in 1..9 : UUIDString(n) = seg
  THEN CHOOSE n \in 1..9 : UUIDString(n) = seg
  ELSE 0

\* the segments requests carry: ports "3000", "0", "65536", the non-integer
\* "abc"; the ids of the records and an id of no record
PortSegs ==
  { << "3", "0", "0", "0" >>, << "0" >>, << "6", "5", "5", "3", "6" >>,
    << "a", "b", "c" >> }

IdSegs == { UUIDString(n) : n \in {1, 2, 9} }

\* the literal path segments of the routes, as character sequences
SegHealth == << "h", "e", "a", "l", "t", "h" >>

SegMetrics == << "m", "e", "t", "r", "i", "c", "s" >>

SegApi == << "a", "p", "i" >>

SegTunnels == << "t", "u", "n", "n", "e", "l", "s" >>

SegTunnel == << "t", "u", "n", "n", "e", "l" >>

SegNope == << "n", "o", "p", "e" >>

\* URL paths, as their segments (the empty one is "/"; SegNope: a path under
\* /api of no route)
Paths ==
  { <<>>, << SegHealth >>, << SegApi, SegTunnels >>, << SegApi, SegNope >> }
    \cup { << SegApi, SegTunnel, seg >> : seg \in PortSegs \cup IdSegs }
    \cup { << seg >> : seg \in PortSegs }

Methods == { "GET", "POST", "DELETE", "OPTIONS" }

\* a host label that is not of the name generator's form, in the shape of one
PlainLabel(s) == [adj |-> s, noun |-> "", num |-> 0]

\* r.Host with its port cut off, split at the dots (strings.Split(host, ".")):
\* "localhost", "arbok.dev", "<subdomain>.arbok.dev"
Hosts ==
  { << PlainLabel("localhost") >>,
    << PlainLabel("arbok"), PlainLabel("dev") >> }
    \cup { << NameGenerate(buf), PlainLabel("arbok"), PlainLabel("dev") >> :
             buf \in { << 0, 0, 0 >> } }

\* s.cfg.Domain
Domain == << PlainLabel("arbok"), PlainLabel("dev") >>

\* the X-API-Key header, the Authorization header (its scheme prefix and the
\* rest; <<>> when absent) and the api_key query parameter of a request
Credentials ==
  { [xApiKey |-> "",    authorization |-> <<>>,                  apiKeyParam |-> ""],
    [xApiKey |-> "abc", authorization |-> <<>>,                  apiKeyParam |-> ""],
    [xApiKey |-> "abd", authorization |-> <<>>,                  apiKeyParam |-> ""],
    [xApiKey |-> "",    authorization |-> << "Bearer ", "abc" >>, apiKeyParam |-> ""],
    [xApiKey |-> "",    authorization |-> << "Bearer ", "" >>,    apiKeyParam |-> "abc"],
    [xApiKey |-> "",    authorization |-> << "Basic ", "abc" >>,  apiKeyParam |-> "abc"],
    [xApiKey |-> "",    authorization |-> <<>>,                  apiKeyParam |-> "abc"],
    [xApiKey |-> "",    authorization |-> <<>>,                  apiKeyParam |-> "abd"],
    [xApiKey |-> "abd", authorization |-> << "Bearer ", "abc" >>, apiKeyParam |-> "abc"] }

Requests ==
  { [method |-> m, path |-> p, host |-> h, cred |-> c] :
      m \in Methods, p \in Paths, h \in Hosts, c \in Credentials }

\* the configured auth.api_keys lists
KeyLists == { <<>>, << "" >>, << "abc", "xyz" >> }

(* ------------------------------------------------------------------ *)
(* Authenticator                                                       *)
(* ------------------------------------------------------------------ *)

\* auth.New: the key set, empty keys left out
AuthNew(keyList) == { keyList[i] : i \in { j \in DOMAIN keyList : keyList[j] # "" } }

\* Authenticator.extractAPIKey
extractAPIKey(rq) ==
  IF rq.cred.xApiKey # "" THEN rq.cred.xApiKey
  ELSE IF rq.cred.authorization # <<>> /\ rq.cred.authorization[1] = "Bearer "
  THEN rq.cred.authorization[2]
  ELSE rq.cred.apiKeyParam

\* Authenticator.isValidKey (subtle.ConstantTimeCompare is 1 iff the two are
\* equal, lengths included)
isValidKey(keys, key) == \E validKey \in keys : key = validKey

\* Authenticator.Middleware: "next", or the text of the 401 it answers
AuthMiddleware(keys, rq) ==
  IF rq.path \in { << SegHealth >>, << SegMetrics >> } THEN "next"
  ELSE IF keys = {} THEN "next"
  ELSE IF extractAPIKey(rq) = "" THEN "Missing API key"
  ELSE IF ~isValidKey(keys, extractAPIKey(rq)) THEN "Invalid API key"
  ELSE "next"

(* ------------------------------------------------------------------ *)
(* Router (gorilla/mux): the first route that matches, in the order    *)
(* of setupRoutes; the catch-all proxy route matches everything else   *)
(* ------------------------------------------------------------------ *)

\* [handler, auth]: the route's handler, and whether the /api subrouter's
\* middleware runs (only when one of the subrouter's routes matches)
Route(rq) ==
  LET p == rq.path
      m == rq.method
  IN  IF p = <<>> /\ m = "GET"
      THEN [handler |-> "handleRoot", auth |-> FALSE]
      ELSE IF p = << SegHealth >> /\ m = "GET"
      THEN [handler |-> "handleHealth", auth |-> FALSE]
      ELSE IF Len(p) = 3 /\ p[1] = SegApi /\ p[2] = SegTunnel /\ IsDigits(p[3]) /\ m = "POST"
      THEN [handler |-> "handleCreateTunnel", auth |-> TRUE]
      ELSE IF Len(p) = 3 /\ p[1] = SegApi /\ p[2] = SegTunnel /\ m = "GET"
      THEN [handler |-> "handleGetTunnel", auth |-> TRUE]
      ELSE IF Len(p) = 3 /\ p[1] = SegApi /\ p[2] = SegTunnel /\ m = "DELETE"
      THEN [handler |-> "handleDeleteTunnel", auth |-> TRUE]
      ELSE IF p = << SegApi, SegTunnels >> /\ m = "GET"
      THEN [handler |-> "handleListTunnels", auth |-> TRUE]
      ELSE IF Len(p) = 1 /\ IsDigits(p[1]) /\ m = "GET"
      THEN [handler |-> "handleProvisionSimple", auth |-> FALSE]
      ELSE [handler |-> "handleTunnelProxy", auth |-> FALSE]

(* ------------------------------------------------------------------ *)
(* State                                                               *)
(* ------------------------------------------------------------------ *)

VARIABLES
  cfg,        \* the configured CIDR (server.cidr)
  registry,   \* Registry: ipPool, tunnels, bySubdomain
  metrics,    \* the package-level counters and gauges
  tun,        \* the tunnel device: closed, peers
  req,        \* the handler goroutines in flight: a bag of [pc, id, t]
  clock,      \* time.Now()
  nextTick,   \* when the reaper's ticker fires next
  reaper,     \* "running" or "stopped": the cleanupRoutine goroutine
  ctxDone,    \* the root context is cancelled (SIGINT/SIGTERM)
  regClosed,  \* main has called Registry.Close
  httpDown,   \* the HTTP server no longer accepts requests
  nextId,     \* the next fresh uuid / key seed
  apiKeys,    \* the configured auth.api_keys
  resp,       \* the response written last
  ws,         \* the WebSocket handlers: position, connections, copy goroutines
  mainProc,   \* main and the goroutines it starts: positions, done, the budget
  mu,         \* Registry.mu, the sync.RWMutex: writer, held, readers
  poolMu,     \* IPPool.mu, the sync.Mutex: its holder, 0 when free
  thr,        \* the goroutines that call into the registry: call, instructions left
  info,       \* the tunnel.Info they work on: in the index or not, its counters
  closing     \* the calls of Tunnel.Close: closeMutex, positions, device.Close() count

vars == << cfg, registry, metrics, tun, req, clock, nextTick, reaper,
           ctxDone, regClosed, httpDown, nextId, apiKeys, resp, ws, mainProc,
           mu, poolMu, thr, info, closing >>

\* the registry, the device and the lifecycle of the server
mainVars == << cfg, registry, metrics, tun, req, clock, nextTick, reaper,
               ctxDone, regClosed, httpDown, nextId >>

\* the state of the parts that have a specification of their own
sideVars == << ws, mainProc, mu, poolMu, thr, info, closing >>

\* the locks of the registry and of the pool, and the goroutines that take them
lockVars == << mu, poolMu, thr, info >>

\* what the HTTP front end adds to the state of the registry and the device
httpVars == << apiKeys, resp >>

\* what the calls of Tunnel.Close leave alone
closeRest ==
  << cfg, registry, metrics, req, clock, nextTick, reaper, ctxDone, regClosed,
     httpDown, nextId, httpVars, ws, mainProc, lockVars >>

\* a response: who wrote it, the status, the code and the text of an error,
\* the data of a body
NoData == [none |-> TRUE]

Response(by, status, code, text, data) ==
  [by |-> by, status |-> status, code |-> code, text |-> text, data |-> data]

NoResponse == Response("", 0, "", "", NoData)

\* the port of the requests (a valid one: 1..65535)
Ports == {3000}

NoTunnel == [ID |-> 0]

\* the WebSocket requests of the model
MaxSplices == 2

Splices == 1..MaxSplices

\* the two copy goroutines of a splice: client to target, target to client
Directions == { "c2t", "t2c" }

\* a handleWebSocket call that has not started: no connection, no goroutine
NoSplice ==
  [pc |-> "idle", client |-> "none", target |-> "none", ctx |-> FALSE,
   errc |-> 0, c2t |-> "none", t2c |-> "none"]

NoSplices == [i \in Splices |-> NoSplice]

\* the goroutines that call into the registry at the same time
MaxThreads == 3

Threads == 1..MaxThreads

\* sync.RWMutex: writer is the goroutine in Lock (0: none), held tells that
\* its Lock has returned, readers are the goroutines between RLock and RUnlock
Unlocked == [writer |-> 0, held |-> FALSE, readers |-> {}]

\* a goroutine that is in no call
NoCall == [op |-> "idle", arg |-> FALSE, prog |-> <<>>, tmp |-> 0]

NoCalls == [i \in Threads |-> NoCall]

\* no record in the indexes
NoInfo == [exists |-> FALSE, LastSeen |-> 0, BytesIn |-> 0, BytesOut |-> 0, sum |-> 0]

\* the goroutines that call Tunnel.Close, and the calls each of them makes
MaxClosers == 3

MaxCloseCalls == 2

\* nobody is in Tunnel.Close: closeMutex is free, device.Close() has not run
NoClosing ==
  [mutex |-> 0, pc |-> [i \in 1..MaxClosers |-> "idle"],
   returned |-> [i \in 1..MaxClosers |-> 0], deviceCloses |-> 0]

\* main waits for the signal, its two workers (tun.Up, apiServer.Start) and
\* the shutdown goroutine of Start wait too; no done channel, no budget yet
Started ==
  [main |-> "serving", exit |-> "none", up |-> "waiting", start |-> "listening",
   shutdown |-> "waiting", done |-> "none", budget |-> "none"]

Init ==
  /\ cfg \in Cidrs
  /\ registry = NewRegistry(cfg)
  /\ metrics = NewMetrics(cfg)
  /\ tun = NewTunnel
  /\ req = EmptyBag
  /\ clock = 0
  /\ nextTick = CleanupInterval
  /\ reaper = "running"
  /\ ctxDone = FALSE
  /\ regClosed = FALSE
  /\ httpDown = FALSE
  /\ nextId = 1
  /\ apiKeys = <<>>
  /\ resp = NoResponse
  /\ ws = NoSplices
  /\ mainProc = Started
  /\ mu = Unlocked
  /\ poolMu = 0
  /\ thr = NoCalls
  /\ info = NoInfo
  /\ closing = NoClosing

\* the handlers in flight
InFlight == BagToSet(req)

\* a request is accepted: a handler goroutine starts
Accepting == ~httpDown /\ BagCardinality(req) < MaxReqs

\* handler h moves on to position pc
Goto(h, pc) == req' = (req (-) SetToBag({h})) (+) SetToBag({[h EXCEPT !.pc = pc]})

\* handler h has written its response and returns
Return(h) == req' = req (-) SetToBag({h})

(* ------------------------------------------------------------------ *)
(* handleCreateTunnel (POST /api/tunnel/{port}) and                    *)
(* handleProvisionSimple (GET /{port}): the same calls in the same     *)
(* order, the responses differ (201 JSON, 200 text)                    *)
(* ------------------------------------------------------------------ *)

\* the port is parsed and Registry.CreateTunnel runs; on an error the handler
\* answers 500 and returns, else it goes on to AddPeer holding t
CreateStep(port, buf) ==
  /\ Accepting
  /\ metrics.TunnelsCreated + metrics.IPPoolExhausted < MaxCreates
  /\ LET c == CreateTunnel(registry, metrics, port, nextId, nextId, buf, clock)
     IN  /\ registry' = c.reg
         /\ metrics' = c.metrics
         /\ IF c.err # "nil"
            THEN /\ req' = req
                 /\ nextId' = nextId
            ELSE /\ req' = req (+) SetToBag({[pc |-> "AddPeer", id |-> c.t.ID,
                                              t |-> c.t]})
                 /\ nextId' = nextId + 1
  /\ UNCHANGED << cfg, tun, clock, nextTick, reaper, ctxDone, regClosed, httpDown >>

HandleCreateTunnel(port, buf) == CreateStep(port, buf)

HandleProvisionSimple(port, buf) == CreateStep(port, buf)

\* s.tun.AddPeer(t.PublicKey, t.AllowedIP): on success the handler answers
\* 201/200 and returns; a panic is answered 500 by middleware.Recovery; on an
\* error the handler goes on to undo the create
HandleCreateAddPeer(h, ipc) ==
  /\ h \in InFlight
  /\ h.pc = "AddPeer"
  /\ ipc \in IpcOutcomes(tun, "add")
  /\ LET a == AddPeer(tun, h.t.PublicKey, h.t.AllowedIP, ipc)
     IN  /\ tun' = a.tun
         /\ IF a.err \in {"nil", "panic"} THEN Return(h) ELSE Goto(h, "Rollback")
  /\ UNCHANGED << cfg, registry, metrics, clock, nextTick, reaper, ctxDone,
                  regClosed, httpDown, nextId >>

\* _ = s.registry.DeleteTunnel(t.ID) after a failed AddPeer, then 500
\* (PEER_ADD_FAILED)
HandleCreateRollback(h) ==
  /\ h \in InFlight
  /\ h.pc = "Rollback"
  /\ LET d == DeleteTunnel(registry, metrics, h.t.ID)
     IN  /\ registry' = d.reg
         /\ metrics' = d.metrics
  /\ Return(h)
  /\ UNCHANGED << cfg, tun, clock, nextTick, reaper, ctxDone, regClosed,
                  httpDown, nextId >>

(* ------------------------------------------------------------------ *)
(* handleDeleteTunnel                                                  *)
(* ------------------------------------------------------------------ *)

\* t := s.registry.GetTunnel(tunnelID); nil is answered 404
HandleDelete(id) ==
  /\ Accepting
  /\ LET t == GetTunnel(registry, id)
     IN  IF t = NoTunnel
         THEN req' = req
         ELSE req' = req (+) SetToBag({[pc |-> "RemovePeer", id |-> id, t |-> t]})
  /\ UNCHANGED << cfg, registry, metrics, tun, clock, nextTick, reaper,
                  ctxDone, regClosed, httpDown, nextId >>

\* s.tun.RemovePeer(t.PublicKey); an error is only logged, a panic is
\* answered 500 by middleware.Recovery
HandleDeleteRemovePeer(h, ipc) ==
  /\ h \in InFlight
  /\ h.pc = "RemovePeer"
  /\ ipc \in IpcOutcomes(tun, "remove")
  /\ LET p == RemovePeer(tun, h.t.PublicKey, ipc)
     IN  /\ tun' = p.tun
         /\ IF p.err = "panic" THEN Return(h) ELSE Goto(h, "DeleteTunnel")
  /\ UNCHANGED << cfg, registry, metrics, clock, nextTick, reaper, ctxDone,
                  regClosed, httpDown, nextId >>

\* s.registry.DeleteTunnel(tunnelID): 204, or 500 (DELETE_FAILED) on an error
HandleDeleteDeleteTunnel(h) ==
  /\ h \in InFlight
  /\ h.pc = "DeleteTunnel"
  /\ LET d == DeleteTunnel(registry, metrics, h.id)
     IN  /\ registry' = d.reg
         /\ metrics' = d.metrics
  /\ Return(h)
  /\ UNCHANGED << cfg, tun, clock, nextTick, reaper, ctxDone, regClosed,
                  httpDown, nextId >>

(* ------------------------------------------------------------------ *)
(* Time, the reaper and shutdown                                       *)
(* ------------------------------------------------------------------ *)

\* the clock advances; a running reaper takes its tick when it is due
Tick ==
  /\ clock < MaxTime
  /\ reaper = "stopped" \/ clock < nextTick
  /\ clock' = clock + 1
  /\ UNCHANGED << cfg, registry, metrics, tun, req, nextTick, reaper, ctxDone,
                  regClosed, httpDown, nextId >>

\* cleanupRoutine, case <-ticker.C: cleanupExpired
ReaperTick ==
  /\ reaper = "running"
  /\ clock >= nextTick
  /\ LET c == cleanupExpired(registry, metrics, clock)
     IN  /\ registry' = c.reg
         /\ metrics' = c.metrics
  /\ nextTick' = nextTick + CleanupInterval
  /\ UNCHANGED << cfg, tun, req, clock, reaper, ctxDone, regClosed, httpDown,
                  nextId >>

\* cleanupRoutine, case <-r.ctx.Done(): return
ReaperExit ==
  /\ reaper = "running"
  /\ ctxDone
  /\ reaper' = "stopped"
  /\ UNCHANGED << cfg, registry, metrics, tun, req, clock, nextTick, ctxDone,
                  regClosed, httpDown, nextId >>

\* SIGINT or SIGTERM cancels the root context
Signal ==
  /\ ~ctxDone
  /\ ctxDone' = TRUE
  /\ UNCHANGED << cfg, registry, metrics, tun, req, clock, nextTick, reaper,
                  regClosed, httpDown, nextId >>

\* Server.Start, after <-ctx.Done(): server.Shutdown stops accepting requests
HTTPShutdown ==
  /\ ctxDone
  /\ ~httpDown
  /\ httpDown' = TRUE
  /\ UNCHANGED << cfg, registry, metrics, tun, req, clock, nextTick, reaper,
                  ctxDone, regClosed, nextId >>

\* Tunnel.Up, after <-ctx.Done(): tun.Close()
TunnelUpClose ==
  /\ ctxDone
  /\ ~tun.closed
  /\ tun' = CloseTunnel(tun)
  /\ UNCHANGED << cfg, registry, metrics, req, clock, nextTick, reaper,
                  ctxDone, regClosed, httpDown, nextId >>

\* main, after <-ctx.Done(): reg.Close()
RegistryClose ==
  /\ ctxDone
  /\ ~regClosed
  /\ LET c == CloseRegistry(registry, metrics)
     IN  /\ registry' = c.reg
         /\ metrics' = c.metrics
  /\ regClosed' = TRUE
  /\ UNCHANGED << cfg, tun, req, clock, nextTick, reaper, ctxDone, httpDown,
                  nextId >>

Next ==
  \/ \E port \in Ports, buf \in NameBufs : HandleCreateTunnel(port, buf)
         /\ UNCHANGED << httpVars, sideVars >>
  \/ \E port \in Ports, buf \in NameBufs : HandleProvisionSimple(port, buf)
         /\ UNCHANGED << httpVars, sideVars >>
  \/ \E h \in InFlight, ipc \in {"nil", "err", "panic"} : HandleCreateAddPeer(h, ipc)
         /\ UNCHANGED << httpVars, sideVars >>
  \/ \E h \in InFlight : HandleCreateRollback(h)
         /\ UNCHANGED << httpVars, sideVars >>
  \/ \E id \in 1..MaxCreates : HandleDelete(id)
         /\ UNCHANGED << httpVars, sideVars >>
  \/ \E h \in InFlight, ipc \in {"nil", "err", "panic"} : HandleDeleteRemovePeer(h, ipc)
         /\ UNCHANGED << httpVars, sideVars >>
  \/ \E h \in InFlight : HandleDeleteDeleteTunnel(h)
         /\ UNCHANGED << httpVars, sideVars >>
  \/ Tick /\ UNCHANGED << httpVars, sideVars >>
  \/ ReaperTick /\ UNCHANGED << httpVars, sideVars >>
  \/ ReaperExit /\ UNCHANGED << httpVars, sideVars >>
  \/ Signal /\ UNCHANGED << httpVars, sideVars >>
  \/ HTTPShutdown /\ UNCHANGED << httpVars, sideVars >>
  \/ TunnelUpClose /\ UNCHANGED << httpVars, sideVars >>
  \/ RegistryClose /\ UNCHANGED << httpVars, sideVars >>

\* the registry, the device and the lifecycle, under requests that have passed
\* the router and the gate; the responses are not recorded
Spec == Init /\ [][Next]_vars

(* ------------------------------------------------------------------ *)
(* The HTTP front end: router, gate, handlers and their responses      *)
(* ------------------------------------------------------------------ *)

\* the keyed requests of one behaviour (auth_failures_total plus
\* auth_successes_total)
MaxAuthChecks == 2

\* writeError: a JSON ErrorResponse
writeError(by, status, code, message) == Response(by, status, code, message, NoData)

\* http.Error: a text body
httpError(by, text, status) == Response(by, status, "", text, NoData)

\* a TunnelResponse that also carries the record's private key
TunnelResponse_WithKey(t, now) ==
  [ID         |-> t.ID,
   Subdomain  |-> t.Subdomain,
   URL        |-> [scheme |-> "https", host |-> << t.Subdomain >> \o Domain],
   Port       |-> t.Port,
   CreatedAt  |-> t.CreatedAt,
   ExpiresAt  |-> t.ExpiresAt,
   TTL        |-> t.ExpiresAt - now,
   PrivateKey |-> t.PrivateKey]

\* the TunnelResponse of a record (TTL: time.Until(t.ExpiresAt))
TunnelResponse(t, now) ==
  [ID        |-> t.ID,
   Subdomain |-> t.Subdomain,
   URL       |-> [scheme |-> "https", host |-> << t.Subdomain >> \o Domain],
   Port      |-> t.Port,
   CreatedAt |-> t.CreatedAt,
   ExpiresAt |-> t.ExpiresAt,
   TTL       |-> t.ExpiresAt - now]

\* Server.generateWireGuardConfig: the fields of the config text
generateWireGuardConfig(t) ==
  [Address             |-> [ip |-> t.AllowedIP, prefix |-> 32],
   PrivateKey          |-> t.PrivateKey,
   PublicKey           |-> "server public key",
   AllowedIPs          |-> [ip |-> [quad |-> << 10, 100, 0, 1 >>], prefix |-> 32],
   Endpoint            |-> "server endpoint",
   PersistentKeepalive |-> 25]

\* the requests of the model.  To the API, with no key and with the key
\* "abc": POST /api/tunnel/<port>, GET and DELETE /api/tunnel/<id>,
\* GET /api/tunnels, GET /api/nope; GET /api/tunnels with every credential;
\* on every host and with no key: GET /, GET /<port>, GET /health, POST /3000,
\* and OPTIONS / and OPTIONS /api/tunnels
NoCredential == [xApiKey |-> "", authorization |-> <<>>, apiKeyParam |-> ""]

ServedRequests ==
  { rq \in Requests :
      \/ /\ rq.path # <<>>
         /\ rq.path[1] = SegApi
         /\ rq.host = Domain
         /\ rq.cred \in { NoCredential, [NoCredential EXCEPT !.xApiKey = "abc"] }
         /\ \/ rq.method = "POST" /\ rq.path \in { << SegApi, SegTunnel, seg >> : seg \in PortSegs }
            \/ rq.method \in { "GET", "DELETE" }
               /\ rq.path \in { << SegApi, SegTunnel, seg >> : seg \in IdSegs }
            \/ rq.method = "GET" /\ rq.path \in { << SegApi, SegTunnels >>, << SegApi, SegNope >> }
      \/ /\ rq.path = << SegApi, SegTunnels >>
         /\ rq.method = "GET"
         /\ rq.host = Domain
      \/ /\ rq.path = <<>> \/ rq.path[1] # SegApi
         /\ rq.cred = NoCredential
         /\ \/ rq.method = "GET"
            \/ rq.method = "POST" /\ rq.path = << << "3", "0", "0", "0" >> >>
      \/ /\ rq.method = "OPTIONS"
         /\ rq.path \in { <<>>, << SegApi, SegTunnels >> }
         /\ rq.cred = NoCredential }

\* the requests of the model by the handler the router gives them to
Handlers ==
  { "handleRoot", "handleHealth", "handleCreateTunnel", "handleGetTunnel", "handleDeleteTunnel",
    "handleListTunnels", "handleProvisionSimple", "handleTunnelProxy" }

Routed == [ h \in Handlers |-> { rq \in ServedRequests : Route(rq).handler = h } ]

\* the requests of the model whose route is under the gate
Gated == { rq \in ServedRequests : Route(rq).auth }

\* the answer of the gate to rq: "next" when the route is not under the gate
Gate(rq) ==
  IF rq \in Gated THEN AuthMiddleware(AuthNew(apiKeys), rq) ELSE "next"

\* the gate counts rq in auth_failures_total or auth_successes_total
GateCounts(rq) == rq \in Gated /\ AuthNew(apiKeys) # {}

\* s.cfg.AllowedOrigins (http.allowed_origins)
AllowedOrigins == << "https://ui.example" >>

\* the Origin header of a preflight request
Origins == { "https://ui.example", "https://evil.example" }

\* middleware.CORS, the loop over allowedOrigins
OriginAllowed(allowedOrigins, origin) ==
  \E i \in DOMAIN allowedOrigins :
    allowedOrigins[i] = "*" \/ allowedOrigins[i] = origin

\* middleware.CORS, the headers it sets on an allowed origin
CORSHeaders(allowedOrigins, origin) ==
  IF OriginAllowed(allowedOrigins, origin)
  THEN [AccessControlAllowOrigin  |-> origin,
        AccessControlAllowMethods |-> "GET, POST, PUT, DELETE, OPTIONS",
        AccessControlAllowHeaders |-> "Content-Type, Authorization, X-API-Key",
        AccessControlMaxAge       |-> "86400"]
  ELSE NoData

\* middleware.CORS that hands a preflight request on to the next handler
CORSNext_PassesPreflight(rq) ==
  TRUE

\* middleware.CORS: whether it calls next.ServeHTTP (not on OPTIONS)
CORSNext(rq) ==
  rq.method # "OPTIONS"

\* the preflight requests of the model
Preflights == { rq \in ServedRequests : rq.method = "OPTIONS" }

\* rq is accepted, routed to handler and let through by middleware.CORS and
\* by the gate
Dispatch(rq, handler) ==
  /\ rq \in Routed[handler]
  /\ CORSNext(rq)
  /\ Accepting
  /\ Gate(rq) = "next"
  /\ GateCounts(rq) => metrics.AuthFailures + metrics.AuthSuccesses < MaxAuthChecks

\* the metrics after the gate has let rq through
Admitted(rq) ==
  IF GateCounts(rq) THEN [metrics EXCEPT !.AuthSuccesses = @ + 1] ELSE metrics

\* Authenticator.Middleware answers 401; the handler does not run
GateReject(rq) ==
  /\ rq \in Gated
  /\ CORSNext(rq)
  /\ Accepting
  /\ Gate(rq) # "next"
  /\ metrics.AuthFailures + metrics.AuthSuccesses < MaxAuthChecks
  /\ metrics' = [metrics EXCEPT !.AuthFailures = @ + 1]
  /\ resp' = httpError("Authenticator.Middleware", Gate(rq), 401)
  /\ UNCHANGED << cfg, registry, tun, req, clock, nextTick, reaper, ctxDone,
                  regClosed, httpDown, nextId, apiKeys >>

\* middleware.CORS answers a preflight request of a matched route:
\* w.WriteHeader(http.StatusNoContent) and return
ServePreflight(rq, origin) ==
  /\ rq \in Preflights
  /\ ~CORSNext(rq)
  /\ Accepting
  /\ resp' = Response("middleware.CORS", 204, "", "", CORSHeaders(AllowedOrigins, origin))
  /\ UNCHANGED << cfg, registry, metrics, tun, req, clock, nextTick, reaper,
                  ctxDone, regClosed, httpDown, nextId, apiKeys >>

\* handleHealth
ServeHealth(rq) ==
  /\ Dispatch(rq, "handleHealth")
  /\ metrics' = Admitted(rq)
  /\ resp' = Response("handleHealth", 200, "", "", [status |-> "ok", time |-> clock])
  /\ UNCHANGED << cfg, registry, tun, req, clock, nextTick, reaper, ctxDone,
                  regClosed, httpDown, nextId, apiKeys >>

\* the port segment of the path of a create or provisioning request
PortSeg(rq) == rq.path[Len(rq.path)]

\* the port check of handleCreateTunnel and handleProvisionSimple
PortOK(seg) ==
  LET port == ParseUint(seg, 16)
  IN  port.err = "nil" /\ port.val # 0 /\ port.val <= 65535

\* the create and provisioning requests of the model that pass the port check
ValidCreates ==
  [ h \in { "handleCreateTunnel", "handleProvisionSimple" } |->
      { rq \in Routed[h] : PortOK(PortSeg(rq)) } ]

\* the create and provisioning requests of the model, sent to the server's
\* own host, whose port segment fails the port check: 0, 65536, not a number
BadPortRequests ==
  { rq \in ServedRequests :
      /\ rq.host = Domain
      /\ \/ rq.method = "POST" /\ Len(rq.path) = 3 /\ rq.path[1] = SegApi
            /\ rq.path[2] = SegTunnel
         \/ rq.method = "GET" /\ Len(rq.path) = 1 /\ rq.path[1] \in PortSegs
      /\ ~PortOK(PortSeg(rq)) }

\* how handleCreateTunnel and handleProvisionSimple word the same answers
InvalidPort(handler) ==
  IF handler = "handleCreateTunnel"
  THEN writeError(handler, 400, "INVALID_PORT", "Invalid port number")
  ELSE httpError(handler, "Invalid port number", 400)

CreateFailed(handler) ==
  IF handler = "handleCreateTunnel"
  THEN writeError(handler, 500, "TUNNEL_CREATE_FAILED", "Failed to create tunnel")
  ELSE httpError(handler, "Failed to create tunnel", 500)

PeerAddFailed(handler) ==
  IF handler = "handleCreateTunnel"
  THEN writeError(handler, 500, "PEER_ADD_FAILED", "Failed to configure tunnel")
  ELSE httpError(handler, "Failed to configure tunnel", 500)

Created(handler, t, now) ==
  IF handler = "handleCreateTunnel"
  THEN Response(handler, 201, "", "", TunnelResponse(t, now))
  ELSE Response(handler, 200, "", "", generateWireGuardConfig(t))

\* middleware.Recovery answers a panic of the handler
Recovered == httpError("middleware.Recovery", "Internal Server Error", 500)

\* handleCreateTunnel and handleProvisionSimple up to the return of
\* Registry.CreateTunnel: 400 for a bad port, 500 for a failed create, else
\* the handler goes on to AddPeer holding t
ServeCreate(rq, handler, buf) ==
  /\ handler \in { "handleCreateTunnel", "handleProvisionSimple" }
  /\ Dispatch(rq, handler)
  /\ LET port == ParseUint(PortSeg(rq), 16)
     IN  IF port.err # "nil" \/ port.val = 0 \/ port.val > 65535
         THEN /\ metrics' = Admitted(rq)
              /\ resp' = InvalidPort(handler)
              /\ UNCHANGED << registry, req, nextId >>
         ELSE /\ metrics.TunnelsCreated + metrics.IPPoolExhausted < MaxCreates
              /\ LET c == CreateTunnel(registry, Admitted(rq), port.val, nextId,
                                       nextId, buf, clock)
                 IN  /\ registry' = c.reg
                     /\ metrics' = c.metrics
                     /\ IF c.err # "nil"
                        THEN /\ resp' = CreateFailed(handler)
                             /\ UNCHANGED << req, nextId >>
                        ELSE /\ req' = req (+) SetToBag({[pc |-> "AddPeer",
                                         id |-> c.t.ID, t |-> c.t, handler |-> handler]})
                             /\ nextId' = nextId + 1
                             /\ resp' = resp
  /\ UNCHANGED << cfg, tun, clock, nextTick, reaper, ctxDone, regClosed,
                  httpDown, apiKeys >>

\* s.tun.AddPeer and, when it succeeds, the 201 or the config text
ServeAddPeer(h, ipc) ==
  /\ HandleCreateAddPeer(h, ipc)
  /\ resp' = IF ipc = "nil" THEN Created(h.handler, h.t, clock)
             ELSE IF ipc = "panic" THEN Recovered
             ELSE resp
  /\ UNCHANGED apiKeys

\* the undo after a failed AddPeer and the 500
ServeRollback(h) ==
  /\ HandleCreateRollback(h)
  /\ resp' = PeerAddFailed(h.handler)
  /\ UNCHANGED apiKeys

\* handleGetTunnel
ServeGet(rq) ==
  /\ Dispatch(rq, "handleGetTunnel")
  /\ metrics' = Admitted(rq)
  /\ LET t == GetTunnel(registry, PathID(rq.path[3]))
     IN  resp' = IF t = NoTunnel
                 THEN writeError("handleGetTunnel", 404, "TUNNEL_NOT_FOUND", "Tunnel not found")
                 ELSE Response("handleGetTunnel", 200, "", "", TunnelResponse(t, clock))
  /\ UNCHANGED << cfg, registry, tun, req, clock, nextTick, reaper, ctxDone,
                  regClosed, httpDown, nextId, apiKeys >>

\* handleListTunnels
ServeList(rq) ==
  /\ Dispatch(rq, "handleListTunnels")
  /\ metrics' = Admitted(rq)
  /\ resp' = Response("handleListTunnels", 200, "", "",
                      [tunnels |-> { TunnelResponse(t, clock) : t \in Live(registry) },
                       count   |-> Cardinality(Live(registry))])
  /\ UNCHANGED << cfg, registry, tun, req, clock, nextTick, reaper, ctxDone,
                  regClosed, httpDown, nextId, apiKeys >>

\* handleDeleteTunnel up to the return of GetTunnel: 404 for nil
ServeDelete(rq) ==
  /\ Dispatch(rq, "handleDeleteTunnel")
  /\ metrics' = Admitted(rq)
  /\ LET id == PathID(rq.path[3])
         t  == GetTunnel(registry, id)
     IN  IF t = NoTunnel
         THEN /\ resp' = writeError("handleDeleteTunnel", 404, "TUNNEL_NOT_FOUND",
                                    "Tunnel not found")
              /\ req' = req
         ELSE /\ resp' = resp
              /\ req' = req (+) SetToBag({[pc |-> "RemovePeer", id |-> id, t |-> t,
                                           handler |-> "handleDeleteTunnel"]})
  /\ UNCHANGED << cfg, registry, tun, clock, nextTick, reaper, ctxDone,
                  regClosed, httpDown, nextId, apiKeys >>

\* s.tun.RemovePeer
ServeRemovePeer(h, ipc) ==
  /\ HandleDeleteRemovePeer(h, ipc)
  /\ resp' = IF ipc = "panic" THEN Recovered ELSE resp
  /\ UNCHANGED apiKeys

\* s.registry.DeleteTunnel and the 204, or the 500 for its error
ServeDeleteTunnel(h) ==
  /\ HandleDeleteDeleteTunnel(h)
  /\ resp' = IF DeleteTunnel(registry, metrics, h.id).err = "nil"
             THEN Response("handleDeleteTunnel", 204, "", "", NoData)
             ELSE writeError("handleDeleteTunnel", 500, "DELETE_FAILED",
                             "Failed to delete tunnel")
  /\ UNCHANGED apiKeys

\* a "host[:port]" string: a name by its labels, or an address with a port
NoHost == [labels |-> <<>>, ip |-> <<>>, port |-> 0]

\* the request as the handler receives it: r.Host is the public host
Inbound(rq) ==
  [URLScheme       |-> "",
   URLHost         |-> NoHost,
   Host            |-> [NoHost EXCEPT !.labels = rq.host],
   XForwardedHost  |-> NoHost,
   XForwardedProto |-> ""]

\* createReverseProxy: target.Host, "<targetIP>:<port>" of the record
Target(t) == [NoHost EXCEPT !.ip = t.AllowedIP.quad, !.port = t.Port]

\* proxy.Director: the assignments in the order of the code
Director(r, target) ==
  LET r1 == [r  EXCEPT !.URLScheme = "http"]
      r2 == [r1 EXCEPT !.URLHost = target]
      r3 == [r2 EXCEPT !.Host = target]
      r4 == [r3 EXCEPT !.XForwardedHost = r3.Host]
  IN  [r4 EXCEPT !.XForwardedProto = "https"]

\* proxy.ServeHTTP for the record t: the request that goes upstream
Proxied(rq, t) == Response("upstream", 200, "", "", Director(Inbound(rq), Target(t)))

\* handleTunnelProxy: 400 for a host of one label, 404 for a first label of
\* no record, else the request goes to the record's upstream and the
\* upstream's answer comes back
ServeProxy(rq) ==
  /\ Dispatch(rq, "handleTunnelProxy")
  /\ metrics' = Admitted(rq)
  /\ LET t == GetTunnelBySubdomain(registry, rq.host[1])
     IN  resp' = IF Len(rq.host) < 2
                 THEN writeError("handleTunnelProxy", 400, "INVALID_HOST", "Invalid host header")
                 ELSE IF t = NoTunnel
                 THEN writeError("handleTunnelProxy", 404, "TUNNEL_NOT_FOUND", "Tunnel not found")
                 ELSE Proxied(rq, t)
  /\ UNCHANGED << cfg, registry, tun, req, clock, nextTick, reaper, ctxDone,
                  regClosed, httpDown, nextId, apiKeys >>

\* the handler of "/": a request on the host of a live record goes to
\* handleTunnelProxy, any other is redirected to /ui
ServeRoot(rq) ==
  /\ Dispatch(rq, "handleRoot")
  /\ metrics' = Admitted(rq)
  /\ LET t == IF Len(rq.host) >= 2
              THEN GetTunnelBySubdomain(registry, rq.host[1])
              ELSE NoTunnel
     IN  resp' = IF t # NoTunnel
                 THEN Proxied(rq, t)
                 ELSE Response("handleRoot", 302, "", "", [Location |-> "/ui"])
  /\ UNCHANGED << cfg, registry, tun, req, clock, nextTick, reaper, ctxDone,
                  regClosed, httpDown, nextId, apiKeys >>

\* the draws of the name generator in the front end's behaviours
NameBufsHTTP == { << 0, 0, 0 >>, << 1, 0, 0 >> }

\* the CIDRs of the front end's behaviours: 10.100.0.0/30 and 10.100.1.0/24
CidrsHTTP ==
  { [addr |-> <<10, 100, 0, 0>>, ones |-> 30],
    [addr |-> <<10, 100, 1, 0>>, ones |-> 24] }

InitHTTP ==
  /\ cfg \in CidrsHTTP
  /\ registry = NewRegistry(cfg)
  /\ metrics = NewMetrics(cfg)
  /\ tun = NewTunnel
  /\ req = EmptyBag
  /\ clock = 0
  /\ nextTick = CleanupInterval
  /\ reaper = "running"
  /\ ctxDone = FALSE
  /\ regClosed = FALSE
  /\ httpDown = FALSE
  /\ nextId = 1
  /\ apiKeys \in KeyLists
  /\ resp = NoResponse
  /\ ws = NoSplices
  /\ mainProc = Started
  /\ mu = Unlocked
  /\ poolMu = 0
  /\ thr = NoCalls
  /\ info = NoInfo
  /\ closing = NoClosing

NextHTTP ==
  \/ \E rq \in Gated : GateReject(rq)
       /\ UNCHANGED sideVars
  \/ \E rq \in Preflights, origin \in Origins : ServePreflight(rq, origin)
       /\ UNCHANGED sideVars
  \/ \E rq \in Routed["handleRoot"] : ServeRoot(rq)
       /\ UNCHANGED sideVars
  \/ \E rq \in Routed["handleHealth"] : ServeHealth(rq)
       /\ UNCHANGED sideVars
  \/ \E rq \in Routed["handleCreateTunnel"], buf \in NameBufsHTTP :
       ServeCreate(rq, "handleCreateTunnel", buf)
       /\ UNCHANGED sideVars
  \/ \E rq \in Routed["handleProvisionSimple"], buf \in NameBufsHTTP :
       ServeCreate(rq, "handleProvisionSimple", buf)
       /\ UNCHANGED sideVars
  \/ \E h \in InFlight, ipc \in {"nil", "err", "panic"} : ServeAddPeer(h, ipc)
       /\ UNCHANGED sideVars
  \/ \E h \in InFlight : ServeRollback(h)
       /\ UNCHANGED sideVars
  \/ \E rq \in Routed["handleGetTunnel"] : ServeGet(rq)
       /\ UNCHANGED sideVars
  \/ \E rq \in Routed["handleListTunnels"] : ServeList(rq)
       /\ UNCHANGED sideVars
  \/ \E rq \in Routed["handleDeleteTunnel"] : ServeDelete(rq)
       /\ UNCHANGED sideVars
  \/ \E h \in InFlight, ipc \in {"nil", "err", "panic"} : ServeRemovePeer(h, ipc)
       /\ UNCHANGED sideVars
  \/ \E h \in InFlight : ServeDeleteTunnel(h)
       /\ UNCHANGED sideVars
  \/ \E rq \in Routed["handleTunnelProxy"] : ServeProxy(rq)
       /\ UNCHANGED sideVars

\* the requests as they arrive, with their responses; the clock stands still
\* and no signal comes
SpecHTTP == InitHTTP /\ [][NextHTTP]_vars

(* ------------------------------------------------------------------ *)
(* handleWebSocket: dial, hijack, the two copy goroutines, the select  *)
(* and the deferred calls                                              *)
(* ------------------------------------------------------------------ *)

\* the connection a copy goroutine reads from
CopySource(d) == IF d = "c2t" THEN "client" ELSE "target"

\* s.websocketDial: on an error 502 and return, else defer targetConn.Close()
WSDial(i, ok) ==
  /\ ws[i].pc = "idle"
  /\ ws' = [ws EXCEPT ![i] =
              IF ok THEN [@ EXCEPT !.pc = "dialed", !.target = "open"]
              ELSE [@ EXCEPT !.pc = "returned"]]
  /\ UNCHANGED << mainVars, httpVars, mainProc, lockVars, closing >>

\* hijacker.Hijack: on a failure 500 and return (targetConn.Close runs), else
\* defer clientConn.Close()
WSHijack(i, ok) ==
  /\ ws[i].pc = "dialed"
  /\ ws' = [ws EXCEPT ![i] =
              IF ok THEN [@ EXCEPT !.pc = "hijacked", !.client = "open"]
              ELSE [@ EXCEPT !.pc = "closeTarget"]]
  /\ UNCHANGED << mainVars, httpVars, mainProc, lockVars, closing >>

\* writeWebSocketResponse: on an error return (both deferred Close run), else
\* the context is made, cancel is deferred and the two goroutines start
WSUpgrade(i, ok) ==
  /\ ws[i].pc = "hijacked"
  /\ ws' = [ws EXCEPT ![i] =
              IF ok THEN [@ EXCEPT !.pc = "select", !.c2t = "copying", !.t2c = "copying"]
              ELSE [@ EXCEPT !.pc = "closeClient"]]
  /\ UNCHANGED << mainVars, httpVars, mainProc, lockVars, closing >>

\* io.Copy in goroutine d returns: EOF or an error of the peer, or the
\* connection it reads from has been closed
CopyReturns(i, d) ==
  /\ ws[i][d] = "copying"
  /\ ws' = [ws EXCEPT ![i][d] = "sending"]
  /\ UNCHANGED << mainVars, httpVars, mainProc, lockVars, closing >>

\* the connection goroutine d reads from is closed: its Read fails at once
SourceClosed(i, d) == ws[i][CopySource(d)] = "closed"

\* errc <- err: the channel holds two, the send never blocks
CopySend(i, d) ==
  /\ ws[i][d] = "sending"
  /\ ws' = [ws EXCEPT ![i][d] = "cancelling", ![i].errc = @ + 1]
  /\ UNCHANGED << mainVars, httpVars, mainProc, lockVars, closing >>

\* the deferred cancel() of goroutine d; the goroutine ends
CopyCancel(i, d) ==
  /\ ws[i][d] = "cancelling"
  /\ ws' = [ws EXCEPT ![i][d] = "done", ![i].ctx = TRUE]
  /\ UNCHANGED << mainVars, httpVars, mainProc, lockVars, closing >>

\* the request's context, parent of ctx, is cancelled
RequestCtxDone(i) ==
  /\ ws[i].pc = "select"
  /\ ~ws[i].ctx
  /\ ws' = [ws EXCEPT ![i].ctx = TRUE]
  /\ UNCHANGED << mainVars, httpVars, mainProc, lockVars, closing >>

\* select: case <-ctx.Done() or case <-errc, then return
WSSelect(i, fromErrc) ==
  /\ ws[i].pc = "select"
  /\ IF fromErrc THEN ws[i].errc > 0 ELSE ws[i].ctx
  /\ ws' = [ws EXCEPT ![i].pc = "deferCancel",
                      ![i].errc = IF fromErrc THEN @ - 1 ELSE @]
  /\ UNCHANGED << mainVars, httpVars, mainProc, lockVars, closing >>

\* the deferred calls of the handler, last deferred first: cancel()
WSDeferCancel(i) ==
  /\ ws[i].pc = "deferCancel"
  /\ ws' = [ws EXCEPT ![i].pc = "closeClient", ![i].ctx = TRUE]
  /\ UNCHANGED << mainVars, httpVars, mainProc, lockVars, closing >>

\* a handler that returns without closing the client connection
WSCloseClient_Skip(i) ==
  /\ ws[i].pc = "closeClient"
  /\ ws' = [ws EXCEPT ![i].pc = "closeTarget"]
  /\ UNCHANGED << mainVars, httpVars, mainProc, lockVars, closing >>

\* clientConn.Close()
WSCloseClient(i) ==
  /\ ws[i].pc = "closeClient"
  /\ ws' = [ws EXCEPT ![i].pc = "closeTarget", ![i].client = "closed"]
  /\ UNCHANGED << mainVars, httpVars, mainProc, lockVars, closing >>

\* targetConn.Close(); the handler has returned
WSCloseTarget(i) ==
  /\ ws[i].pc = "closeTarget"
  /\ ws' = [ws EXCEPT ![i].pc = "returned", ![i].target = "closed"]
  /\ UNCHANGED << mainVars, httpVars, mainProc, lockVars, closing >>

NextWS ==
  \/ \E i \in Splices, ok \in BOOLEAN : WSDial(i, ok)
  \/ \E i \in Splices, ok \in BOOLEAN : WSHijack(i, ok)
  \/ \E i \in Splices, ok \in BOOLEAN : WSUpgrade(i, ok)
  \/ \E i \in Splices, d \in Directions : CopyReturns(i, d)
  \/ \E i \in Splices, d \in Directions : CopySend(i, d)
  \/ \E i \in Splices, d \in Directions : CopyCancel(i, d)
  \/ \E i \in Splices : RequestCtxDone(i)
  \/ \E i \in Splices, fromErrc \in BOOLEAN : WSSelect(i, fromErrc)
  \/ \E i \in Splices : WSDeferCancel(i)
  \/ \E i \in Splices : WSCloseClient(i)
  \/ \E i \in Splices : WSCloseTarget(i)

\* every goroutine that can run does run: the handler at its select and in
\* its deferred calls, a copy goroutine after io.Copy has returned, and
\* io.Copy itself once the connection it reads from is closed.  That a peer
\* ever sends EOF, and that the request's context is ever cancelled, is not
\* assumed
FairWS ==
  \A i \in Splices :
    /\ WF_vars(\E fromErrc \in BOOLEAN : WSSelect(i, fromErrc))
    /\ WF_vars(WSDeferCancel(i))
    /\ WF_vars(WSCloseClient(i))
    /\ WF_vars(WSCloseTarget(i))
    /\ \A d \in Directions :
         /\ WF_vars(CopySend(i, d))
         /\ WF_vars(CopyCancel(i, d))
         /\ WF_vars(SourceClosed(i, d) /\ CopyReturns(i, d))

\* the WebSocket handlers on a server at rest
InitWS == Init /\ cfg.ones = 24

SpecWS == InitWS /\ [][NextWS]_vars /\ FairWS

(* ------------------------------------------------------------------ *)
(* main: the workers, the signal and the shutdown budget               *)
(* ------------------------------------------------------------------ *)

\* the process lives until main returns
Running == mainProc.main # "exited"

\* main, <-ctx.Done(): main wakes and starts the 30 s budget (shutdownCtx)
MainWake ==
  /\ mainProc.main = "serving"
  /\ ctxDone
  /\ mainProc' = [mainProc EXCEPT !.main = "closing", !.budget = "armed"]
  /\ UNCHANGED << mainVars, httpVars, ws, lockVars, closing >>

\* main: reg.Close(), then the done channel is made and the goroutine that
\* waits for the two workers is started
MainRegistryClose ==
  /\ mainProc.main = "closing"
  /\ RegistryClose
  /\ mainProc' = [mainProc EXCEPT !.main = "waiting", !.done = "open"]
  /\ UNCHANGED << httpVars, ws, lockVars, closing >>

\* the first worker: tun.Up(ctx) closes the device after the signal and
\* returns, the deferred wg.Done() runs
TunnelUp ==
  /\ Running
  /\ mainProc.up = "waiting"
  /\ TunnelUpClose
  /\ mainProc' = [mainProc EXCEPT !.up = "returned"]
  /\ UNCHANGED << httpVars, ws, lockVars, closing >>

\* the goroutine of Server.Start: after <-ctx.Done() it calls server.Shutdown,
\* which closes the listeners
ShutdownCalled ==
  /\ Running
  /\ mainProc.shutdown = "waiting"
  /\ ctxDone
  /\ httpDown' = TRUE
  /\ mainProc' = [mainProc EXCEPT !.shutdown = "called"]
  /\ UNCHANGED << cfg, registry, metrics, tun, req, clock, nextTick, reaper,
                  ctxDone, regClosed, nextId, httpVars, ws, lockVars, closing >>

\* server.Shutdown returns: no handler is in flight any more, or its 10 s
\* deadline has passed
ShutdownReturns(deadline) ==
  /\ Running
  /\ mainProc.shutdown = "called"
  /\ deadline \/ req = EmptyBag
  /\ mainProc' = [mainProc EXCEPT !.shutdown = "returned"]
  /\ UNCHANGED << mainVars, httpVars, ws, lockVars, closing >>

\* the second worker: server.ListenAndServe returns, with ErrServerClosed as
\* soon as Shutdown has been called, or with an error of its own (failed);
\* Start returns and the deferred wg.Done() runs
StartReturns(failed) ==
  /\ Running
  /\ mainProc.start = "listening"
  /\ IF failed
     THEN /\ ~httpDown
          /\ httpDown' = TRUE
     ELSE /\ mainProc.shutdown # "waiting"
          /\ httpDown' = httpDown
  /\ mainProc' = [mainProc EXCEPT !.start = "returned"]
  /\ UNCHANGED << cfg, registry, metrics, tun, req, clock, nextTick, reaper,
                  ctxDone, regClosed, nextId, httpVars, ws, lockVars, closing >>

\* go func() { wg.Wait(); close(done) }()
WaitGroupDone ==
  /\ Running
  /\ mainProc.done = "open"
  /\ mainProc.up = "returned"
  /\ mainProc.start = "returned"
  /\ mainProc' = [mainProc EXCEPT !.done = "closed"]
  /\ UNCHANGED << mainVars, httpVars, ws, lockVars, closing >>

\* the 30 s of shutdownCtx pass
BudgetFires ==
  /\ Running
  /\ mainProc.budget = "armed"
  /\ mainProc' = [mainProc EXCEPT !.budget = "fired"]
  /\ UNCHANGED << mainVars, httpVars, ws, lockVars, closing >>

\* the select without its case <-shutdownCtx.Done()
MainSelect_NoBudget(case) ==
  /\ mainProc.main = "waiting"
  /\ case = "complete"
  /\ mainProc.done = "closed"
  /\ mainProc' = [mainProc EXCEPT !.main = "exited", !.exit = case]
  /\ UNCHANGED << mainVars, httpVars, ws, lockVars, closing >>

\* main: select { case <-done: "shutdown complete";
\*                case <-shutdownCtx.Done(): "shutdown timeout exceeded" },
\* then main returns
MainSelect(case) ==
  /\ mainProc.main = "waiting"
  /\ \/ case = "complete" /\ mainProc.done = "closed"
     \/ case = "timeout" /\ mainProc.budget = "fired"
  /\ mainProc' = [mainProc EXCEPT !.main = "exited", !.exit = case]
  /\ UNCHANGED << mainVars, httpVars, ws, lockVars, closing >>

NextMain ==
  \/ \E port \in Ports, buf \in NameBufs :
       Running /\ HandleCreateTunnel(port, buf) /\ UNCHANGED << httpVars, sideVars >>
  \/ \E h \in InFlight, ipc \in {"nil", "err", "panic"} :
       Running /\ HandleCreateAddPeer(h, ipc) /\ UNCHANGED << httpVars, sideVars >>
  \/ \E h \in InFlight :
       Running /\ HandleCreateRollback(h) /\ UNCHANGED << httpVars, sideVars >>
  \/ Running /\ Signal /\ UNCHANGED << httpVars, sideVars >>
  \/ MainWake
  \/ MainRegistryClose
  \/ TunnelUp
  \/ ShutdownCalled
  \/ \E deadline \in BOOLEAN : ShutdownReturns(deadline)
  \/ \E failed \in BOOLEAN : StartReturns(failed)
  \/ WaitGroupDone
  \/ BudgetFires
  \/ \E case \in {"complete", "timeout"} : MainSelect(case)

\* main runs when it can, and time passes; nothing is assumed of the workers:
\* tun.Close() and ListenAndServe may never return
FairMain ==
  /\ WF_vars(MainWake)
  /\ WF_vars(MainRegistryClose)
  /\ WF_vars(BudgetFires)
  /\ WF_vars(\E case \in {"complete", "timeout"} : MainSelect(case))

\* one address to hand out
InitMain == Init /\ cfg.ones = 30

SpecMain == InitMain /\ [][NextMain]_vars /\ FairMain

(* ------------------------------------------------------------------ *)
(* Registry.mu and IPPool.mu: the calls as sequences of lock steps     *)
(* ------------------------------------------------------------------ *)

\* the calls a goroutine makes: the methods of the registry, the reaper's
\* tick, and the calls of the handlers into the device
Calls ==
  { "CreateTunnel", "GetTunnel", "GetTunnelBySubdomain", "ListTunnels",
    "UpdateTraffic", "DeleteTunnel", "cleanupExpired", "Close",
    "AddPeer", "RemovePeer" }

\* the UpdateTraffic calls of the model, each with bytesIn = bytesOut = 1
MaxUpdates == 2

\* what a call does before it has the registry's lock
Entry(op) ==
  IF op \in { "CreateTunnel", "DeleteTunnel", "cleanupExpired" } THEN << "Lock" >>
  ELSE IF op = "Close" THEN << "Cancel", "Lock" >>
  ELSE IF op \in { "AddPeer", "RemovePeer" } THEN << "Device" >>
  ELSE << "RLock" >>

\* deleteTunnelLocked with a call into the device while r.mu is held
deleteTunnelLockedSteps_RemovesPeer ==
  << "Device", "PoolLock", "PoolUnlock", "Del", "PoolLock", "PoolUnlock" >>

\* deleteTunnelLocked: ipPool.ReleaseString, the two deletes, ipPool.Available
deleteTunnelLockedSteps ==
  << "PoolLock", "PoolUnlock", "Del", "PoolLock", "PoolUnlock" >>

\* what a call does once it has the registry's lock; exists: the record is in
\* the index (for CreateTunnel: the pool's one address is taken); arg: the
\* record has expired
Locked(op, arg, exists) ==
  IF op = "CreateTunnel"
  THEN IF exists
       THEN << "PoolLock", "PoolUnlock", "Unlock" >>
       ELSE << "PoolLock", "PoolUnlock", "Put", "PoolLock", "PoolUnlock", "Unlock" >>
  ELSE IF op \in { "GetTunnel", "GetTunnelBySubdomain" }
  THEN IF exists THEN << "Stamp", "RUnlock" >> ELSE << "RUnlock" >>
  ELSE IF op = "ListTunnels"
  THEN << "RUnlock" >>
  ELSE IF op = "UpdateTraffic"
  THEN IF exists
       THEN << "LoadIn", "StoreIn", "LoadOut", "StoreOut", "RUnlock" >>
       ELSE << "RUnlock" >>
  ELSE IF op = "DeleteTunnel"
  THEN IF exists THEN deleteTunnelLockedSteps \o << "Unlock" >> ELSE << "Unlock" >>
  ELSE IF op = "cleanupExpired"
  THEN IF exists /\ arg THEN deleteTunnelLockedSteps \o << "Unlock" >> ELSE << "Unlock" >>
  ELSE IF exists THEN deleteTunnelLockedSteps \o << "Unlock" >> ELSE << "Unlock" >>

\* the instruction goroutine i is at
At(i) == IF thr[i].prog = <<>> THEN "none" ELSE Head(thr[i].prog)

\* goroutine i is not blocked
Ready(i) ==
  /\ thr[i].op # "idle"
  /\ At(i) = "Lock" => mu.writer = 0 \/ (mu.writer = i /\ mu.readers = {})
  /\ At(i) = "RLock" => mu.writer = 0
  /\ At(i) = "PoolLock" => poolMu = 0

\* goroutine i goes on with the instructions rest, and is out of its call
\* when none is left
Advance(i, rest, tmp) ==
  thr' = [thr EXCEPT ![i] = IF rest = <<>> THEN NoCall
                            ELSE [@ EXCEPT !.prog = rest, !.tmp = tmp]]

\* a goroutine enters a call
Call(i, op, arg) ==
  /\ thr[i].op = "idle"
  /\ op = "UpdateTraffic" =>
       info.sum + Cardinality({ j \in Threads : thr[j].op = "UpdateTraffic"
                                                 /\ At(j) \in { "RLock", "LoadIn" } })
         < MaxUpdates
  /\ arg => op = "cleanupExpired"
  /\ thr' = [thr EXCEPT ![i] = [op |-> op, arg |-> arg, prog |-> Entry(op), tmp |-> 0]]
  /\ UNCHANGED << mu, poolMu, info >>

\* r.mu.Lock(), first half: the goroutine is the writer, new readers wait
MuLockPending(i) ==
  /\ Ready(i)
  /\ At(i) = "Lock"
  /\ mu.writer = 0
  /\ mu' = [mu EXCEPT !.writer = i]
  /\ UNCHANGED << poolMu, thr, info >>

\* r.mu.Lock(), second half: the readers have left, Lock returns
MuLock(i) ==
  /\ Ready(i)
  /\ At(i) = "Lock"
  /\ mu.writer = i
  /\ mu' = [mu EXCEPT !.held = TRUE]
  /\ Advance(i, Locked(thr[i].op, thr[i].arg, info.exists), 0)
  /\ UNCHANGED << poolMu, info >>

\* r.mu.Unlock()
MuUnlock(i) ==
  /\ Ready(i)
  /\ At(i) = "Unlock"
  /\ mu' = [mu EXCEPT !.writer = 0, !.held = FALSE]
  /\ Advance(i, Tail(thr[i].prog), 0)
  /\ UNCHANGED << poolMu, info >>

\* r.mu.RLock()
MuRLock(i) ==
  /\ Ready(i)
  /\ At(i) = "RLock"
  /\ mu' = [mu EXCEPT !.readers = @ \cup {i}]
  /\ Advance(i, Locked(thr[i].op, thr[i].arg, info.exists), 0)
  /\ UNCHANGED << poolMu, info >>

\* r.mu.RUnlock()
MuRUnlock(i) ==
  /\ Ready(i)
  /\ At(i) = "RUnlock"
  /\ mu' = [mu EXCEPT !.readers = @ \ {i}]
  /\ Advance(i, Tail(thr[i].prog), 0)
  /\ UNCHANGED << poolMu, info >>

\* p.mu.Lock() of Allocate, Release and Available
PoolLock(i) ==
  /\ Ready(i)
  /\ At(i) = "PoolLock"
  /\ poolMu' = i
  /\ Advance(i, Tail(thr[i].prog), 0)
  /\ UNCHANGED << mu, info >>

\* the deferred p.mu.Unlock()
PoolUnlock(i) ==
  /\ Ready(i)
  /\ At(i) = "PoolUnlock"
  /\ poolMu' = 0
  /\ Advance(i, Tail(thr[i].prog), 0)
  /\ UNCHANGED << mu, info >>

\* CreateTunnel: r.tunnels[t.ID] = t; r.bySubdomain[t.Subdomain] = t
Put(i) ==
  /\ Ready(i)
  /\ At(i) = "Put"
  /\ info' = [NoInfo EXCEPT !.exists = TRUE, !.LastSeen = i]
  /\ Advance(i, Tail(thr[i].prog), 0)
  /\ UNCHANGED << mu, poolMu >>

\* deleteTunnelLocked: delete(r.tunnels, t.ID); delete(r.bySubdomain, ...)
Del(i) ==
  /\ Ready(i)
  /\ At(i) = "Del"
  /\ info' = NoInfo
  /\ Advance(i, Tail(thr[i].prog), 0)
  /\ UNCHANGED << mu, poolMu >>

\* t.UpdateLastSeen(): t.LastSeen = time.Now(), a write of three words; when
\* another goroutine writes at the same time the value may be neither's (torn: 0)
Stamp(i, torn) ==
  /\ Ready(i)
  /\ At(i) = "Stamp"
  /\ torn => \E j \in Threads \ {i} : At(j) = "Stamp"
  /\ info' = [info EXCEPT !.LastSeen = IF torn THEN 0 ELSE i]
  /\ Advance(i, Tail(thr[i].prog), 0)
  /\ UNCHANGED << mu, poolMu >>

\* t.BytesIn += bytesIn and t.BytesOut += bytesOut: the read
Load(i) ==
  /\ Ready(i)
  /\ At(i) \in { "LoadIn", "LoadOut" }
  /\ info' = IF At(i) = "LoadIn" THEN [info EXCEPT !.sum = @ + 1] ELSE info
  /\ Advance(i, Tail(thr[i].prog),
             IF At(i) = "LoadIn" THEN info.BytesIn ELSE info.BytesOut)
  /\ UNCHANGED << mu, poolMu >>

\* t.BytesIn += bytesIn and t.BytesOut += bytesOut: the write
Store(i) ==
  /\ Ready(i)
  /\ At(i) \in { "StoreIn", "StoreOut" }
  /\ info' = IF At(i) = "StoreIn"
             THEN [info EXCEPT !.BytesIn = thr[i].tmp + 1]
             ELSE [info EXCEPT !.BytesOut = thr[i].tmp + 1]
  /\ Advance(i, Tail(thr[i].prog), 0)
  /\ UNCHANGED << mu, poolMu >>

\* s.tun.AddPeer / s.tun.RemovePeer, called by the handlers
Device(i) ==
  /\ Ready(i)
  /\ At(i) = "Device"
  /\ Advance(i, Tail(thr[i].prog), 0)
  /\ UNCHANGED << mu, poolMu, info >>

\* Close: r.cancel()
Cancel(i) ==
  /\ Ready(i)
  /\ At(i) = "Cancel"
  /\ Advance(i, Tail(thr[i].prog), 0)
  /\ UNCHANGED << mu, poolMu, info >>

NextLocks ==
  \/ \E i \in Threads, op \in Calls, arg \in BOOLEAN :
       Call(i, op, arg) /\ UNCHANGED << mainVars, httpVars, ws, mainProc, closing >>
  \/ \E i \in Threads : MuLockPending(i) /\ UNCHANGED << mainVars, httpVars, ws, mainProc, closing >>
  \/ \E i \in Threads : MuLock(i) /\ UNCHANGED << mainVars, httpVars, ws, mainProc, closing >>
  \/ \E i \in Threads : MuUnlock(i) /\ UNCHANGED << mainVars, httpVars, ws, mainProc, closing >>
  \/ \E i \in Threads : MuRLock(i) /\ UNCHANGED << mainVars, httpVars, ws, mainProc, closing >>
  \/ \E i \in Threads : MuRUnlock(i) /\ UNCHANGED << mainVars, httpVars, ws, mainProc, closing >>
  \/ \E i \in Threads : PoolLock(i) /\ UNCHANGED << mainVars, httpVars, ws, mainProc, closing >>
  \/ \E i \in Threads : PoolUnlock(i) /\ UNCHANGED << mainVars, httpVars, ws, mainProc, closing >>
  \/ \E i \in Threads : Put(i) /\ UNCHANGED << mainVars, httpVars, ws, mainProc, closing >>
  \/ \E i \in Threads : Del(i) /\ UNCHANGED << mainVars, httpVars, ws, mainProc, closing >>
  \/ \E i \in Threads, torn \in BOOLEAN :
       Stamp(i, torn) /\ UNCHANGED << mainVars, httpVars, ws, mainProc, closing >>
  \/ \E i \in Threads : Load(i) /\ UNCHANGED << mainVars, httpVars, ws, mainProc, closing >>
  \/ \E i \in Threads : Store(i) /\ UNCHANGED << mainVars, httpVars, ws, mainProc, closing >>
  \/ \E i \in Threads : Device(i) /\ UNCHANGED << mainVars, httpVars, ws, mainProc, closing >>
  \/ \E i \in Threads : Cancel(i) /\ UNCHANGED << mainVars, httpVars, ws, mainProc, closing >>

\* a registry with one address to hand out
InitLocks == Init /\ cfg.ones = 30

SpecLocks == InitLocks /\ [][NextLocks]_vars

(* ------------------------------------------------------------------ *)
(* Tunnel.Close, called by several goroutines                          *)
(* ------------------------------------------------------------------ *)

\* a goroutine calls tun.Close() (Tunnel.Up after the cancellation, or any
\* other caller)
CloseCall(i) ==
  /\ closing.pc[i] = "idle"
  /\ closing.returned[i] < MaxCloseCalls
  /\ closing' = [closing EXCEPT !.pc[i] = "Lock"]
  /\ UNCHANGED tun

\* tun.closeMutex.Lock()
CloseLock(i) ==
  /\ closing.pc[i] = "Lock"
  /\ closing.mutex = 0
  /\ closing' = [closing EXCEPT !.mutex = i, !.pc[i] = "Check"]
  /\ UNCHANGED tun

\* Close that does not look at tun.closed
CloseCheck_NoFlag(i) ==
  /\ closing.pc[i] = "Check"
  /\ closing' = [closing EXCEPT !.pc[i] = "Device"]
  /\ UNCHANGED tun

\* if tun.closed { return nil }
CloseCheck(i) ==
  /\ closing.pc[i] = "Check"
  /\ closing' = [closing EXCEPT !.pc[i] = IF tun.closed THEN "Unlock" ELSE "Device"]
  /\ UNCHANGED tun

\* tun.device.Close(); tun.device = nil; tun.tun = nil; tun.closed = true
CloseDevice(i) ==
  /\ closing.pc[i] = "Device"
  /\ tun' = [closed |-> TRUE, peers |-> EmptyMap]
  /\ closing' = [closing EXCEPT !.pc[i] = "Unlock", !.deviceCloses = @ + 1]

\* the deferred tun.closeMutex.Unlock(); Close returns nil
CloseUnlock(i) ==
  /\ closing.pc[i] = "Unlock"
  /\ closing' = [closing EXCEPT !.mutex = 0, !.pc[i] = "idle", !.returned[i] = @ + 1]
  /\ UNCHANGED tun

NextClose ==
  \/ \E i \in 1..MaxClosers : CloseCall(i) /\ UNCHANGED closeRest
  \/ \E i \in 1..MaxClosers : CloseLock(i) /\ UNCHANGED closeRest
  \/ \E i \in 1..MaxClosers : CloseCheck(i) /\ UNCHANGED closeRest
  \/ \E i \in 1..MaxClosers : CloseDevice(i) /\ UNCHANGED closeRest
  \/ \E i \in 1..MaxClosers : CloseUnlock(i) /\ UNCHANGED closeRest

InitClose == Init /\ cfg.ones = 24

SpecClose == InitClose /\ [][NextClose]_vars

(* ------------------------------------------------------------------ *)
(* Properties                                                          *)
(* ------------------------------------------------------------------ *)

\* C1: the overlay addresses of the records in the id index are pairwise
\* distinct, and none of them is the server's address (network + 1)
C1_DistinctOverlayIPs ==
  /\ \A i, j \in DOMAIN registry.tunnels :
       i # j => registry.tunnels[i].AllowedIP # registry.tunnels[j].AllowedIP
  /\ \A i \in DOMAIN registry.tunnels :
       registry.tunnels[i].AllowedIP # IPString(ServerIP(cfg))

\* two records are in the id index at once
C1_Witness == Cardinality(DOMAIN registry.tunnels) >= 2

\* C2: the subdomains of the records in the registry are pairwise distinct
C2_DistinctSubdomains ==
  \A i, j \in DOMAIN registry.tunnels :
    i # j => registry.tunnels[i].Subdomain # registry.tunnels[j].Subdomain

\* C3: every record in the indexes has its peer in the device's table: its
\* public key, allowed overlay address <ip>/32
C3_RecordHasPeer ==
  \A t \in Live(registry) \cup { registry.bySubdomain[s] : s \in DOMAIN registry.bySubdomain } :
    /\ t.PublicKey \in DOMAIN tun.peers
    /\ tun.peers[t.PublicKey].allowed_ip = [ip |-> t.AllowedIP, prefix |-> 32]

\* C4: the device's peer table holds no public key of a record that is gone
\* from the indexes: every peer's key is the key of a record of the id index
C4_NoPeerWithoutRecord ==
  \A k \in DOMAIN tun.peers : \E t \in Live(registry) : t.PublicKey = k

\* C5: the pool's allocated set is the set of the overlay addresses of the
\* records of the id index (every state is one between registry operations,
\* the mutex not held)
C5_PoolMatchesRecords ==
  registry.ipPool.allocated = { t.AllowedIP : t \in Live(registry) }

\* a record has been removed and another one is in the index
C5_Witness ==
  /\ metrics.TunnelsDeleted >= 1
  /\ DOMAIN registry.tunnels # {}

\* C6: on a fresh registry of capacity C, with no removal so far, of the N
\* CreateTunnel calls made exactly min(N, C) have succeeded, with pairwise
\* distinct addresses
C6_ConcurrentCreates ==
  metrics.TunnelsDeleted = 0 =>
    LET N == metrics.TunnelsCreated + metrics.IPPoolExhausted
        C == Available(NewIPPool(cfg))
    IN  /\ metrics.TunnelsCreated = IF N < C THEN N ELSE C
        /\ Cardinality({ t.AllowedIP : t \in Live(registry) }) = metrics.TunnelsCreated

\* C7: while the reaper runs, no record of either index was already expired
\* at the reaper's last tick, and none is in an index more than one cleanup
\* interval after its expiry
C7_ReapedByNextTick ==
  reaper = "running" =>
    \A t \in Live(registry) \cup { registry.bySubdomain[s] : s \in DOMAIN registry.bySubdomain } :
      /\ ~IsExpired(t, nextTick - CleanupInterval)
      /\ clock <= t.ExpiresAt + CleanupInterval

\* the running reaper has removed an expired record, and a record is live
C7_Witness ==
  /\ reaper = "running"
  /\ metrics.TunnelsExpired >= 1
  /\ DOMAIN registry.tunnels # {}

\* a CreateTunnel from the current state followed by DeleteTunnel of the new
\* record: the delete succeeds, Available() is what it was, the record's
\* address is free and is what the next Allocate returns, and the record's
\* subdomain is not in the subdomain index
C8_RoundTripNow ==
  \A buf \in NameBufs :
    LET c == CreateTunnel(registry, metrics, 3000, nextId, nextId, buf, clock)
        d == DeleteTunnel(c.reg, c.metrics, c.t.ID)
    IN  c.err = "nil" =>
          /\ d.err = "nil"
          /\ Available(d.reg.ipPool) = Available(registry.ipPool)
          /\ c.t.AllowedIP \notin d.reg.ipPool.allocated
          /\ IPString(Allocate(d.reg.ipPool).ip) = c.t.AllowedIP
          /\ c.t.Subdomain \notin DOMAIN d.reg.bySubdomain

\* a handler's successful DeleteTunnel of record h.t, whatever ran since the
\* record's create: Available() goes up by the one the create took, the
\* record's address is free, its subdomain is not in the subdomain index
C8_DeleteStep ==
  \A h \in InFlight :
    (/\ HandleDeleteDeleteTunnel(h) \/ HandleCreateRollback(h)
     /\ h.t.ID \in DOMAIN registry.tunnels)
    => /\ Available(registry.ipPool') = Available(registry.ipPool) + 1
       /\ h.t.AllowedIP \notin registry.ipPool'.allocated
       /\ h.t.Subdomain \notin DOMAIN registry.bySubdomain'
       /\ h.t.ID \notin DOMAIN registry.tunnels'

\* C8: creating a record R and then successfully deleting it gives the pool
\* back R's address (Available() as before the create, the address
\* allocatable again) and leaves R's subdomain out of the subdomain index
C8_CreateDeleteRoundTrip == [](C8_RoundTripNow) /\ [][C8_DeleteStep]_vars

\* a record was created and deleted again by a handler, and the pool is back
\* at its initial count
C8_Witness ==
  /\ metrics.TunnelsCreated >= 1
  /\ metrics.TunnelsDeleted = metrics.TunnelsCreated
  /\ metrics.TunnelsExpired = 0
  /\ ~regClosed
  /\ Available(registry.ipPool) = Available(NewIPPool(cfg))

\* C9: for a valid CIDR (a prefix of at most 30 bits) a fresh pool has
\* Available() = usable hosts - 1, Allocate succeeds whenever Available() > 0
\* and fails with "IP pool exhausted" when it is not, and with no release so
\* far a failed Allocate comes only after Available() successes
C9_AllocateWhileAvailable ==
  cfg.ones <= 30 =>
    /\ Available(NewIPPool(cfg)) = (Pow2(32 - cfg.ones) - 2) - 1
    /\ Available(registry.ipPool) > 0 => Allocate(registry.ipPool).err = "nil"
    /\ Available(registry.ipPool) <= 0 =>
         Allocate(registry.ipPool).err = "IP pool exhausted"
    /\ (metrics.TunnelsDeleted = 0 /\ metrics.IPPoolExhausted > 0) =>
         metrics.TunnelsCreated = Available(NewIPPool(cfg))

\* C10: Allocate returns the lowest host address of the CIDR, from network + 2
\* on, that is not allocated; it never returns the network address, the
\* server's address (network + 1) or an allocated address
C10_AllocateLowestFree ==
  LET p    == registry.ipPool
      a    == Allocate(p)
      size == Pow2(p.network.bits - p.network.ones)
      base == ((p.network.IP[1] * 256 + p.network.IP[2]) * 256
               + p.network.IP[3]) * 256 + p.network.IP[4]
      Addr(n) == << n \div 16777216, (n \div 65536) % 256, (n \div 256) % 256, n % 256 >>
      free == { k \in 2..(size - 2) : IPString(Addr(base + k)) \notin p.allocated }
  IN  /\ free # {} =>
           /\ a.err = "nil"
           /\ \E k \in free : a.ip = Addr(base + k) /\ \A l \in free : k <= l
      /\ a.err = "nil" =>
           /\ a.ip # p.network.IP
           /\ a.ip # ServerIP(cfg)
           /\ IPString(a.ip) \notin p.allocated
      /\ \A t \in Live(registry) :
           t.AllowedIP \notin {IPString(p.network.IP), IPString(ServerIP(cfg))}


\* C11: constructing the pool from a /30 gives exactly one allocatable client
\* address, and constructing it from a /31, a /32 or a malformed CIDR fails
\* with an error instead of returning a pool
C11_PoolConstruction ==
  /\ cfg.ones = 30 =>
       /\ NewIPPoolErr(cfg) = "nil"
       /\ Available(NewIPPool(cfg)) = 1
  /\ cfg.ones = 31 => NewIPPoolErr(cfg) # "nil"
  /\ NewIPPoolErr([addr |-> <<10, 100, 0, 0>>, ones |-> 32]) # "nil"
  /\ \A c \in MalformedCidrs : NewIPPoolErr(c) # "nil"

\* C12: when AddPeer returns an error after CreateTunnel succeeded inside a
\* create or provisioning request, the handler undoes the create before it
\* answers: the record is in neither index, its address is back in the pool,
\* the device holds no peer for its key, and the indexes, the pool and the
\* peer table are what they were before the request
C12_RollbackRestoresState ==
  \A port \in Ports, buf \in NameBufs :
    LET c == CreateTunnel(registry, metrics, port, nextId, nextId, buf, clock)
        a == AddPeer(tun, c.t.PublicKey, c.t.AllowedIP, "err")
        d == DeleteTunnel(c.reg, c.metrics, c.t.ID)
    IN  (Accepting /\ c.err = "nil") =>
          /\ a.err # "nil"
          /\ c.t.ID \notin DOMAIN d.reg.tunnels
          /\ \A s \in DOMAIN d.reg.bySubdomain : d.reg.bySubdomain[s].ID # c.t.ID
          /\ c.t.AllowedIP \notin d.reg.ipPool.allocated
          /\ c.t.PublicKey \notin DOMAIN a.tun.peers
          /\ d.reg = registry
          /\ a.tun = tun

\* C13: a create that fails because the address pool is exhausted has no side
\* effects: both indexes, the pool's allocated set and the peer table are
\* unchanged, ip_pool_exhausted_total goes up by exactly one, and the admin
\* API answers 500 or 503 with code TUNNEL_CREATE_FAILED
C13_ExhaustedCreate ==
  [][ Allocate(registry.ipPool).err = "IP pool exhausted" =>
        \A handler \in { "handleCreateTunnel", "handleProvisionSimple" } :
          \A rq \in ValidCreates[handler], buf \in NameBufsHTTP :
            ServeCreate(rq, handler, buf)
            => /\ registry' = registry
               /\ tun' = tun
               /\ req' = req
               /\ metrics'.IPPoolExhausted = metrics.IPPoolExhausted + 1
               /\ metrics'.TunnelsCreated = metrics.TunnelsCreated
               /\ metrics'.TunnelsActive = metrics.TunnelsActive
               /\ resp'.status \in { 500, 503 }
               /\ handler = "handleCreateTunnel" =>
                    /\ resp'.by = "handleCreateTunnel"
                    /\ resp'.code = "TUNNEL_CREATE_FAILED" ]_vars

\* the admin API has answered a create on a full pool, a record holding the
\* only client address
C13_Witness ==
  /\ resp.by = "handleCreateTunnel"
  /\ resp.code = "TUNNEL_CREATE_FAILED"
  /\ metrics.IPPoolExhausted = 1
  /\ Available(registry.ipPool) = 0
  /\ Cardinality(DOMAIN registry.tunnels) = 1
  /\ Cardinality(DOMAIN tun.peers) = 1

\* C14: with a non-empty configured key list, every request to a route under
\* /api that presents no key equal to a configured key is answered 401 by the
\* gate and does not reach the route's handler
C14_ApiRequiresKey ==
  Len(apiKeys) > 0 =>
    \A rq \in Gated :
      (\A i \in 1..Len(apiKeys) : extractAPIKey(rq) # apiKeys[i]) =>
        AuthMiddleware(AuthNew(apiKeys), rq) \in { "Missing API key", "Invalid API key" }

\* C15: with a non-empty key set the gate takes as the request's key the
\* first one present of header X-API-Key, header Authorization with prefix
\* "Bearer ", query parameter api_key, and admits the request iff that key is
\* a configured key; a valid key in any one of the three places is admitted;
\* every rejection is the same 401 and adds one to auth_failures_total
C15_GateOrderAndRejection ==
  /\ [](AuthNew(apiKeys) # {} =>
          /\ \A rq \in Gated :
               LET key == IF rq.cred.xApiKey # "" THEN rq.cred.xApiKey
                          ELSE IF /\ rq.cred.authorization # <<>>
                                  /\ rq.cred.authorization[1] = "Bearer "
                          THEN rq.cred.authorization[2]
                          ELSE rq.cred.apiKeyParam
               IN  Gate(rq) = "next" <=> key \in AuthNew(apiKeys)
          /\ \A rq \in Gated, k \in AuthNew(apiKeys) :
               rq.cred \in { [NoCredential EXCEPT !.xApiKey = k],
                             [NoCredential EXCEPT !.authorization = << "Bearer ", k >>],
                             [NoCredential EXCEPT !.apiKeyParam = k] }
               => Gate(rq) = "next"
          /\ \A rq1, rq2 \in Gated :
               (Gate(rq1) # "next" /\ Gate(rq2) # "next") =>
                 httpError("Authenticator.Middleware", Gate(rq1), 401)
                   = httpError("Authenticator.Middleware", Gate(rq2), 401))
  /\ [][ \A rq \in Gated :
           GateReject(rq) =>
             /\ resp'.status = 401
             /\ metrics'.AuthFailures = metrics.AuthFailures + 1
             /\ metrics'.AuthSuccesses = metrics.AuthSuccesses ]_vars

\* C16: no response of the admin API (create, get, list, any error body)
\* carries a record's private key; a private key is written only in the 200
\* of the provisioning request that created its record, as that request
\* returns
C16_PrivateKeyOnlyOnProvisioning ==
  /\ []( LET top    == "PrivateKey" \in DOMAIN resp.data
             nested == /\ "tunnels" \in DOMAIN resp.data
                       /\ \E x \in resp.data.tunnels : "PrivateKey" \in DOMAIN x
         IN  /\ ~nested
             /\ top => resp.by = "handleProvisionSimple" /\ resp.status = 200 )
  /\ [][ (resp' # resp /\ "PrivateKey" \in DOMAIN resp'.data) =>
           \E h \in InFlight :
             /\ h.pc = "AddPeer"
             /\ h.handler = "handleProvisionSimple"
             /\ h.t.PrivateKey = resp'.data.PrivateKey
             /\ req' = req (-) SetToBag({h}) ]_vars

\* the admin API has listed a live record
C16_Witness ==
  /\ resp.by = "handleListTunnels"
  /\ resp.status = 200
  /\ resp.data.count >= 1
  /\ \E t \in Live(registry) : \E x \in resp.data.tunnels : x.ID = t.ID

\* C17: for every configured overlay CIDR, the config text of a successful
\* GET /{port} has Address = the new record's overlay address with /32 and
\* AllowedIPs = the server's overlay address (network + 1 of the configured
\* CIDR, the address of the tunnel device) with /32
C17_ConfigAddresses ==
  [][ (resp' # resp /\ resp'.by = "handleProvisionSimple" /\ resp'.status = 200) =>
        /\ \E h \in InFlight :
             /\ h.pc = "AddPeer"
             /\ req' = req (-) SetToBag({h})
             /\ resp'.data.Address = [ip |-> h.t.AllowedIP, prefix |-> 32]
        /\ resp'.data.AllowedIPs = [ip |-> IPString(ServerIP(cfg)), prefix |-> 32] ]_vars

\* C18: a provisioning (GET /{port}) or create (POST /api/tunnel/{port})
\* request whose port is 0, 65536 or not an integer is answered 400 and
\* changes no state: no record, no allocated address, no peer
C18_BadPortIs400 ==
  [][ \A rq \in BadPortRequests :
        ( \/ ServeProxy(rq)
          \/ \E buf \in NameBufsHTTP :
               \/ ServeCreate(rq, "handleCreateTunnel", buf)
               \/ ServeCreate(rq, "handleProvisionSimple", buf) )
        => /\ resp'.status = 400
           /\ registry' = registry
           /\ tun' = tun
           /\ req' = req ]_vars

\* C19: a delete for an id that is not in the registry returns not-found,
\* 404 on DELETE /api/tunnel/{id}, and leaves both indexes, the pool and the
\* device's peer table unchanged
C19_DeleteUnknownId ==
  /\ [](\A seg \in IdSegs :
          PathID(seg) \notin DOMAIN registry.tunnels =>
            LET d == DeleteTunnel(registry, metrics, PathID(seg))
            IN  d.err = "tunnel not found" /\ d.reg = registry /\ d.metrics = metrics)
  /\ [][ \A rq \in Routed["handleDeleteTunnel"] :
           (PathID(rq.path[3]) \notin DOMAIN registry.tunnels /\ ServeDelete(rq)) =>
             /\ resp' = writeError("handleDeleteTunnel", 404, "TUNNEL_NOT_FOUND",
                                   "Tunnel not found")
             /\ registry' = registry
             /\ tun' = tun
             /\ req' = req
             /\ metrics'.TunnelsDeleted = metrics.TunnelsDeleted
             /\ metrics'.TunnelsActive = metrics.TunnelsActive ]_vars

\* DELETE for an unknown id has been answered 404 while a record with its
\* peer is live
C19_Witness ==
  /\ resp.by = "handleDeleteTunnel"
  /\ resp.status = 404
  /\ resp.code = "TUNNEL_NOT_FOUND"
  /\ DOMAIN registry.tunnels # {}
  /\ DOMAIN tun.peers # {}
  /\ registry.ipPool.allocated # {}

\* C20: a GET whose path is one numeric segment provisions a new tunnel only
\* when the request's host carries no subdomain; when the host is
\* <subdomain>.<domain> the request goes to the subdomain proxy and no record
\* is created
C20_PortRouteYieldsToSubdomain ==
  /\ [](\A rq \in ServedRequests :
          (rq.method = "GET" /\ Len(rq.path) = 1 /\ IsDigits(rq.path[1])) =>
            LET sub == /\ Len(rq.host) = Len(Domain) + 1
                       /\ SubSeq(rq.host, 2, Len(rq.host)) = Domain
            IN  /\ Route(rq).handler = "handleProvisionSimple" <=> ~sub
                /\ sub => Route(rq).handler = "handleTunnelProxy")
  /\ [][ \A rq \in Routed["handleProvisionSimple"], buf \in NameBufsHTTP :
           ( /\ Len(rq.host) = Len(Domain) + 1
             /\ SubSeq(rq.host, 2, Len(rq.host)) = Domain
             /\ ServeCreate(rq, "handleProvisionSimple", buf) )
           => registry' = registry /\ req' = req ]_vars


\* C21: every request that is not one of the server's own routes, GET / on a
\* tunnel-style host included, is answered 404 when the leftmost label of its
\* host is the name of no live record and 400 when its host has fewer than
\* two labels; nothing is dialed and no state changes
C21_ProxyDispatchErrors ==
  [][ \A rq \in Routed["handleTunnelProxy"] \cup Routed["handleRoot"] :
        ( \/ ServeProxy(rq)
          \/ /\ Len(rq.host) = Len(Domain) + 1
             /\ SubSeq(rq.host, 2, Len(rq.host)) = Domain
             /\ ServeRoot(rq) )
        => /\ Len(rq.host) < 2 =>
                resp'.status = 400 /\ resp'.by # "upstream"
           /\ (Len(rq.host) >= 2 /\ rq.host[1] \notin DOMAIN registry.bySubdomain) =>
                resp'.status = 404 /\ resp'.by # "upstream"
           /\ registry' = registry
           /\ tun' = tun
           /\ req' = req ]_vars

\* C22: for every proxied HTTP request, the request sent upstream has its URL
\* host rewritten to <overlay_ip>:<target_port> of the looked-up record and
\* carries X-Forwarded-Host = the Host of the original public request and
\* X-Forwarded-Proto = https
C22_UpstreamRequest ==
  [][ (resp' # resp /\ resp'.by = "upstream") =>
        \A rq \in Routed["handleTunnelProxy"] \cup Routed["handleRoot"] :
          (ServeProxy(rq) \/ ServeRoot(rq)) =>
            LET t == GetTunnelBySubdomain(registry, rq.host[1])
            IN  /\ resp'.data.URLHost.ip = t.AllowedIP.quad
                /\ resp'.data.URLHost.port = t.Port
                /\ resp'.data.XForwardedProto = "https"
                /\ resp'.data.XForwardedHost.labels = rq.host ]_vars

\* C23: once a WebSocket splice has started, the end of either copy direction
\* (EOF or error) leads to the handler returning, the client connection and
\* the upstream connection both closed, and both copy goroutines ended; a
\* handler that has returned has left no connection open
C23_SpliceTerminates ==
  /\ [](\A i \in Splices :
          ws[i].pc = "returned" =>
            ws[i].client \in { "none", "closed" } /\ ws[i].target \in { "none", "closed" })
  /\ \A i \in Splices :
       (ws[i].c2t \in { "sending", "cancelling", "done" }
          \/ ws[i].t2c \in { "sending", "cancelling", "done" })
       ~> ( /\ ws[i].pc = "returned"
            /\ ws[i].client = "closed"
            /\ ws[i].target = "closed"
            /\ ws[i].c2t = "done"
            /\ ws[i].t2c = "done" )

\* a splice that is over: the handler has returned, both connections are
\* closed, both goroutines have ended, one error is left in the channel
C23_Witness ==
  \E i \in Splices :
    /\ ws[i].pc = "returned"
    /\ ws[i].client = "closed"
    /\ ws[i].target = "closed"
    /\ ws[i].c2t = "done"
    /\ ws[i].t2c = "done"
    /\ ws[i].errc = 1
\* C24: on shutdown the teardown steps happen in order: the HTTP front end is
\* shut down, then the registry is closed, then the tunnel device is closed;
\* the device is never closed while the HTTP server still serves requests or
\* while the registry still holds live records
C24_ShutdownOrder ==
  /\ regClosed => httpDown
  /\ tun.closed => regClosed
  /\ tun.closed => (httpDown /\ DOMAIN registry.tunnels = {})

\* C25: after Registry.Close has returned the reaper is cancelled and removes
\* nothing further, both indexes are empty and the pool's Available() equals
\* its initial capacity
C25_AfterRegistryClose ==
  /\ [](regClosed =>
          /\ ctxDone
          /\ DOMAIN registry.tunnels = {}
          /\ DOMAIN registry.bySubdomain = {}
          /\ Available(registry.ipPool) = Available(NewIPPool(cfg)))
  /\ [][(regClosed /\ ReaperTick) => registry' = registry]_vars

\* C26: after SIGINT or SIGTERM main always returns: it reports a complete
\* shutdown only when both workers have returned, it reports a timeout only
\* when the shutdown budget has run out, and it returns even if a worker
\* never finishes
C26_MainReturns ==
  /\ [](mainProc.exit = "complete" =>
          mainProc.up = "returned" /\ mainProc.start = "returned")
  /\ [](mainProc.exit = "timeout" => mainProc.budget = "fired")
  /\ (ctxDone ~> mainProc.main = "exited")

\* main has returned on the timeout while the device was never closed and
\* ListenAndServe never returned
C26_Witness ==
  /\ mainProc.main = "exited"
  /\ mainProc.exit = "timeout"
  /\ mainProc.up = "waiting"
  /\ mainProc.start = "listening"
  /\ ~tun.closed

\* C27: when a create or provisioning request returns success, the new record
\* is in both indexes and its peer is in the device; and as long as a record
\* that was created with success has not been removed, a request for its
\* subdomain is dispatched to its tunnel, never answered 404
C27_RoutableAfterCreate ==
  /\ [][ \A h \in InFlight :
           (h.pc = "AddPeer" /\ ServeAddPeer(h, "nil")) =>
             /\ resp'.status \in { 200, 201 }
             /\ h.t.ID \in DOMAIN registry'.tunnels
             /\ h.t.Subdomain \in DOMAIN registry'.bySubdomain
             /\ registry'.bySubdomain[h.t.Subdomain].ID = h.t.ID
             /\ h.t.PublicKey \in DOMAIN tun'.peers ]_vars
  /\ [][ \A rq \in Routed["handleTunnelProxy"] :
           \A t \in Live(registry) :
             ( /\ Len(rq.host) >= 2
               /\ rq.host[1] = t.Subdomain
               /\ t.PublicKey \in DOMAIN tun.peers
               /\ ServeProxy(rq) )
             => resp' = Proxied(rq, t) ]_vars

\* C28: a reaper tick raises tunnels_expired_total by one for each record it
\* removes, gives the record's address back to the pool and makes a lookup of
\* its id answer not found, now and later (ids are not used again); a removal
\* by admin delete, by a rollback or by Close leaves tunnels_expired_total
\* as it was
C28_ExpiredCounted ==
  /\ [](\A id \in DOMAIN registry.tunnels : id < nextId)
  /\ [][ LET expired == { t \in Live(registry) : IsExpired(t, clock) }
         IN  IF nextTick' # nextTick
             THEN /\ metrics'.TunnelsExpired =
                       metrics.TunnelsExpired + Cardinality(expired)
                  /\ Available(registry'.ipPool) =
                       Available(registry.ipPool) + Cardinality(expired)
                  /\ \A t \in expired :
                       /\ GetTunnel(registry', t.ID) = NoTunnel
                       /\ t.AllowedIP \notin registry'.ipPool.allocated
             ELSE metrics'.TunnelsExpired = metrics.TunnelsExpired ]_vars

\* the reaper has removed a record, and another record was removed by an
\* admin delete, a rollback or Close
C28_Witness ==
  /\ metrics.TunnelsExpired >= 1
  /\ metrics.TunnelsDeleted > metrics.TunnelsExpired

\* C29: every write to state the registry owns (the indexes, a record's
\* LastSeen, BytesIn and BytesOut) is made by a goroutine that holds r.mu
\* exclusively, and every read by one that holds it at least shared; and
\* concurrent UpdateTraffic calls lose no update: once they have returned the
\* counters equal the sum of the increments
C29_MutationsUnderLock ==
  /\ \A i \in Threads :
       /\ At(i) \in { "Put", "Del", "Stamp", "StoreIn", "StoreOut" } =>
            mu.writer = i /\ mu.held
       /\ At(i) \in { "LoadIn", "LoadOut" } =>
            i \in mu.readers \/ (mu.writer = i /\ mu.held)
  /\ (\A i \in Threads : thr[i].op = "UpdateTraffic" => At(i) = "RLock") =>
       info.BytesIn = info.sum /\ info.BytesOut = info.sum

\* C30: no interleaving of the registry's calls, the reaper's tick and Close
\* deadlocks: while a goroutine is in a call some goroutine can take a step;
\* the pool's mutex is only taken by a goroutine that already holds r.mu, and
\* nobody waits for r.mu holding the pool's mutex; r.mu is not held by a
\* goroutine that is in a call into the tunnel device
C30_NoDeadlock ==
  /\ (\E i \in Threads : thr[i].op # "idle") => \E i \in Threads : Ready(i)
  /\ poolMu # 0 => mu.writer = poolMu /\ mu.held
  /\ \A i \in Threads :
       /\ At(i) \in { "Lock", "RLock" } => poolMu # i
       /\ At(i) = "Device" => mu.writer # i /\ i \notin mu.readers

\* one goroutine holds r.mu and the pool's mutex, a second one is blocked in
\* r.mu.Lock() or r.mu.RLock(), a third one is in a call into the device
C30_Witness ==
  \E i, j, k \in Threads :
    /\ mu.writer = i /\ mu.held /\ poolMu = i
    /\ j # i /\ At(j) \in { "Lock", "RLock" } /\ ~Ready(j)
    /\ At(k) = "Device"

\* C31: Release of an address that is not allocated (never handed out, already
\* released, or outside the CIDR) returns an error and leaves the allocated set
\* and Available() as they were; Release of an allocated address removes it
\* from the allocated set and raises Available() by exactly one; the number of
\* allocated addresses plus Available() is the pool's initial capacity
C31_ReleaseAccounting ==
  LET p      == registry.ipPool
      probes == { SetLast(p.network.IP, b) : b \in 0..4 }
                  \cup { ParseIP([quad |-> SetLast(p.network.IP, b)]) : b \in 2..3 }
                  \cup { << 192, 168, 0, 2 >> }
  IN  /\ Cardinality(p.allocated) + Available(p) = Available(NewIPPool(cfg))
      /\ \A ip \in probes :
           LET r == Release(p, ip)
           IN  IF IPString(ip) \in p.allocated
               THEN /\ r.err = "nil"
                    /\ r.pool.allocated = p.allocated \ { IPString(ip) }
                    /\ Cardinality(r.pool.allocated) = Cardinality(p.allocated) - 1
                    /\ Available(r.pool) = Available(p) + 1
               ELSE /\ r.err # "nil"
                    /\ r.pool = p

\* one address is allocated and another one was allocated and released
C31_Witness ==
  /\ Cardinality(registry.ipPool.allocated) = 1
  /\ metrics.TunnelsDeleted >= 1
  /\ Available(NewIPPool(cfg)) >= 2

\* C32: Tunnel.Close is idempotent and safe to call concurrently: over any
\* number of calls the device is closed exactly once, and once a call has
\* returned the device is closed
C32_CloseOnce ==
  /\ closing.deviceCloses <= 1
  /\ closing.deviceCloses = 1 <=> tun.closed
  /\ \A i \in 1..MaxClosers : closing.returned[i] >= 1 => closing.deviceCloses = 1
  /\ \A i \in 1..MaxClosers :
       closing.pc[i] \in { "Check", "Device", "Unlock" } <=> closing.mutex = i

\* every goroutine has called Close twice and all calls have returned
C32_Witness ==
  /\ \A i \in 1..MaxClosers : closing.returned[i] = MaxCloseCalls
  /\ closing.deviceCloses = 1

\* C33: the id index and the subdomain index hold the same records: every
\* record of tunnels is the value of bySubdomain at its subdomain, and every
\* value of bySubdomain is in tunnels under its id
C33_IndexesAgree ==
  /\ \A id \in DOMAIN registry.tunnels :
       LET t == registry.tunnels[id]
       IN  /\ t.Subdomain \in DOMAIN registry.bySubdomain
           /\ registry.bySubdomain[t.Subdomain] = t
  /\ \A s \in DOMAIN registry.bySubdomain :
       LET t == registry.bySubdomain[s]
       IN  /\ t.ID \in DOMAIN registry.tunnels
           /\ registry.tunnels[t.ID] = t

\* C34: when removals of one record race, its address is released once and
\* tunnels_active is decremented once, and of the admin DELETE requests for
\* its id exactly the one that removes the record is answered 204, every
\* other one 404, with no effect
C34_RacingRemovals ==
  [][ \A h \in InFlight :
        (h.pc = "DeleteTunnel" /\ ServeDeleteTunnel(h)) =>
          IF h.id \in DOMAIN registry.tunnels
          THEN /\ resp'.status = 204
               /\ h.id \notin DOMAIN registry'.tunnels
               /\ metrics'.TunnelsActive = metrics.TunnelsActive - 1
               /\ Available(registry'.ipPool) = Available(registry.ipPool) + 1
          ELSE /\ resp'.status = 404
               /\ registry' = registry
               /\ metrics' = metrics ]_vars

\* C35: once Registry.Close has run no record becomes live again: a
\* CreateTunnel that comes after it adds nothing to the indexes and takes no
\* address, and no record exists while the reaper is stopped
C35_NoCreateAfterClose ==
  /\ [][ regClosed =>
           /\ DOMAIN registry'.tunnels \subseteq DOMAIN registry.tunnels
           /\ DOMAIN registry'.bySubdomain \subseteq DOMAIN registry.bySubdomain
           /\ registry'.ipPool.allocated \subseteq registry.ipPool.allocated ]_vars
  /\ []((regClosed /\ reaper = "stopped") => DOMAIN registry.tunnels = {})

\* C36: an AddPeer or RemovePeer issued after Tunnel.Close fails with an
\* error: the create handler goes on to undo its create, the delete handler
\* logs the error and goes on to DeleteTunnel, and the device is not touched
C36_PeerCallsAfterClose ==
  [][ tun.closed =>
        \A h \in InFlight :
          /\ (h.pc = "AddPeer"
                /\ \E ipc \in {"nil", "err", "panic"} : HandleCreateAddPeer(h, ipc))
               => HandleCreateAddPeer(h, "err")
          /\ (h.pc = "RemovePeer"
                /\ \E ipc \in {"nil", "err", "panic"} : HandleDeleteRemovePeer(h, ipc))
               => HandleDeleteRemovePeer(h, "err") ]_vars

\* C37: lookups do not filter by expiry: a record of the id index whose
\* expires_at has passed is still returned by GetTunnel and by
\* GetTunnelBySubdomain, and a request for its subdomain goes to its overlay
\* address and port
C37_ExpiredStillServed ==
  \A id \in DOMAIN registry.tunnels :
    LET t == registry.tunnels[id]
    IN  IsExpired(t, clock) =>
          /\ GetTunnel(registry, id) = t
          /\ GetTunnelBySubdomain(registry, t.Subdomain) # NoTunnel
          /\ Target(GetTunnelBySubdomain(registry, t.Subdomain)) = Target(t)

\* C38: between the registry's critical sections the tunnels_active gauge is
\* the number of records of the id index, and tunnels_created_total minus
\* tunnels_deleted_total is that same number
C38_GaugeCountsRecords ==
  /\ metrics.TunnelsActive = Cardinality(DOMAIN registry.tunnels)
  /\ metrics.TunnelsCreated - metrics.TunnelsDeleted = Cardinality(DOMAIN registry.tunnels)

\* one record removed by the reaper and a later one still present
C38_Witness ==
  /\ metrics.TunnelsExpired = 1
  /\ metrics.TunnelsCreated = 2
  /\ Cardinality(DOMAIN registry.tunnels) = 1

====
